---- MODULE Spec2Model ----
(***************************************************************************)
(* Opinionated git operations of the Ledger git service                    *)
(* (src/app/components/WorkView.tsx holds the text of git-service.ts):     *)
(* pullCurrentBranch (auto-stash, pull --rebase, stash pop),               *)
(* commitChanges (behind check before commit), the stash operations and    *)
(* the legacy globals git / repoPath, the RepositoryManager with the       *)
(* context factory (src/unnamed/part_001), and the IPC handlers             *)
(* (src/unnamed/part_002, src/lib/conveyor/handlers).                      *)
(*                                                                         *)
(* Every `await git.<command>` of the source is one step of the model.     *)
(* The repository on disk is the state the git commands act on; what a     *)
(* command does to it follows git's documented behaviour and is written    *)
(* next to each command.                                                   *)
(***************************************************************************)
EXTENDS Integers, Sequences, FiniteSets, TLC

\* ------------------------------------------------------------------ bounds
\* Number of commits the branch can be behind its remote.
MaxBehind == 2
\* Number of local commits not yet on the remote.
MaxCommits == 1
\* Number of entries of the stash list.
MaxStash == 2
\* Number of operations of the service in progress at once, where they overlap.
MaxInFlight == 2
\* Number of contexts the factory creates.
MaxContexts == 3

\* ------------------------------------------------------------- vocabulary
NULL == "null"

\* The repository the user selects.
REPO == "/repo"

\* The files the user edits.
Files == {"a.txt", "b.txt"}

\* The status lists of simple-git's StatusResult read at lines 2057-2062.
Kinds == {"modified", "not_added", "created", "deleted", "staged"}

\* The kinds of edit the user makes to each file.
KindsOf(file) == IF file = "a.txt" THEN Kinds ELSE {"modified"}

AUTO_STASH_MESSAGE == "ledger-auto-stash-for-pull"
USER_STASH_MESSAGE == "WIP on main"

\* Messages git fails with.
E_NOT_REPO == "fatal: not a git repository"
E_NETWORK == "fatal: unable to access origin"
E_LOCK == "fatal: Unable to create index.lock"
E_CONFLICT == "CONFLICT (content): Merge conflict in a.txt"
E_COULD_NOT_APPLY == "error: could not apply 3f2a1bc"
E_NO_TRACKING == "There is no tracking information for the current branch"
E_MID_MERGE == "error: cannot apply a stash in the middle of a merge"
E_NO_REBASE == "fatal: No rebase in progress?"
E_UNTRACKED == "error: could not restore untracked files from stash"
E_NOTHING == "nothing to commit, working tree clean"
E_NO_REPOSITORY == "No repository selected"
E_NO_CONTEXT == "No repository selected. Use RepositoryManager.open() to select a repository."
E_NEEDS_MERGE == "a.txt: needs merge"

\* String.prototype.includes: p occurs in s as a contiguous substring.
Includes(s, p) ==
    \E i \in 0..(Len(s) - Len(p)) : SubSeq(s, i + 1, i + Len(p)) = p

\* ------------------------------------------------------------------ state
VARIABLES
    git,            \* legacy global handle: NULL or the path it is bound to
    repoPath,       \* legacy global path
    contexts,       \* RepositoryManager: the registry of open contexts
    activeId,       \* RepositoryManager: id of the active context, 0 for null
    nextId,         \* the next fresh context id (uuidv4 never repeats)
    synced,         \* argument of the last invocation of the legacy-sync callback
    mcall,          \* the last call of the manager: operation, argument, outcome
    hresult,        \* what the last branch IPC handler call handed to its caller
    fpc,            \* createRepositoryContext: the await it is suspended at
    farg,           \* createRepositoryContext: repoPath and the repository it finds there
    fmeta,          \* createRepositoryContext: actualPath, remoteUrl, defaultBranch so far
    fcmds,          \* git commands issued by the running createRepositoryContext
    fout,           \* what createRepositoryContext (or detectProvider) handed back
    current,        \* branch HEAD is attached to, "" when detached
    behind,         \* fetched commits of origin/<branch> the local branch lacks
    ahead,          \* local commits not on the remote
    worktree,       \* set of uncommitted edits (working tree and index)
    unmerged,       \* the index holds unmerged (conflicted) entries
    rebasing,       \* a rebase is stopped and in progress
    stash,          \* the stash list, stash@{0} first
    pc,             \* pullCurrentBranch: the await it is suspended at
    didStash,       \* pullCurrentBranch: local variable
    currentBranch,  \* pullCurrentBranch: local variable
    statusBefore,   \* pullCurrentBranch: local variable
    errorMessage,   \* pullCurrentBranch: local variable of the catch block
    result,         \* pullCurrentBranch: what the call returned or threw
    cmds,           \* git commands issued by the running pullCurrentBranch
    ats,            \* for each of them, the directory the handle git was bound to
    pushed,         \* the stash entry the running pullCurrentBranch created
    failed,         \* those of them that were rejected, with the message
    atStart,        \* repository state when pullCurrentBranch was called
    cpc,            \* commitChanges: the await it is suspended at
    forceArg,       \* commitChanges: the argument passed for force
    cresult,        \* commitChanges: what the call returned or threw
    catStart,       \* repository state when commitChanges was called
    spc,            \* popStash / dropStash: the await it is suspended at
    sop,            \* popStash / dropStash: which of the two runs
    stashIndex,     \* popStash / dropStash: parameter
    cvpc,           \* convertWorktreeToBranchForContext: the await it is suspended at
    cvarg,          \* convertWorktreeToBranchForContext: worktreePath and what the worktree holds
    cvlocal,        \* convertWorktreeToBranchForContext: local variables
    cvresult,       \* convertWorktreeToBranchForContext: what the call returned
    cvStart,        \* repository state when convertWorktreeToBranchForContext was called
    newBranches     \* local branches of the repository besides main

shimVars == <<git, repoPath>>
mgrVars == <<contexts, activeId, nextId, synced, mcall>>
factVars == <<fpc, farg, fmeta, fcmds, fout>>
repoVars == <<current, behind, ahead, worktree, unmerged, rebasing, stash>>
pullVars == <<pc, didStash, currentBranch, statusBefore, errorMessage, result, cmds, ats, pushed, failed, atStart>>
commitVars == <<cpc, forceArg, cresult, catStart>>
stashVars == <<spc, sop, stashIndex>>
convVars == <<cvpc, cvarg, cvlocal, cvresult, cvStart, newBranches>>
vars == <<shimVars, mgrVars, hresult, factVars, convVars, repoVars, pullVars, commitVars, stashVars>>

\* ---------------------------------------------------------- the repository
EditedFiles(edits) == {e.file : e \in edits}

StashedEdits == UNION {stash[i].changes : i \in 1..Len(stash)}

\* The files with an edit neither in the working tree nor in a stash entry.
FreeFiles == Files \ (EditedFiles(worktree) \cup EditedFiles(StashedEdits))

\* Edits git tracks through the index: everything but untracked files.
Tracked(edits) == {e \in edits : e.kind /= "not_added"}

\* git stash pop without --index: staged modifications come back unstaged.
Unstaged(edits) ==
    {[file |-> e.file, kind |-> IF e.kind = "staged" THEN "modified" ELSE e.kind] : e \in edits}

\* HEAD while a rebase is stopped is detached.
HeadBranch == IF rebasing THEN "" ELSE current

\* git status: the lists of statusBefore and its behind count.
Status ==
    [behind |-> behind,
     modified |-> {e \in worktree : e.kind = "modified"},
     not_added |-> {e \in worktree : e.kind = "not_added"},
     created |-> {e \in worktree : e.kind = "created"},
     deleted |-> {e \in worktree : e.kind = "deleted"},
     staged |-> {e \in worktree : e.kind = "staged"}]

NoStatus ==
    [behind |-> 0, modified |-> {}, not_added |-> {}, created |-> {},
     deleted |-> {}, staged |-> {}]

\* ----------------------------------------------------- pullCurrentBranch
NoResult ==
    [kind |-> "none", success |-> FALSE, message |-> "",
     hadConflicts |-> FALSE, autoStashed |-> FALSE]

\* A returned record; an absent optional field reads as FALSE.
Returned(success, message, hadConflicts, autoStashed) ==
    [kind |-> "returned", success |-> success, message |-> message,
     hadConflicts |-> hadConflicts, autoStashed |-> autoStashed]

Thrown(message) ==
    [kind |-> "threw", success |-> FALSE, message |-> message,
     hadConflicts |-> FALSE, autoStashed |-> FALSE]

\* No stash entry.
NoEntry == [message |-> "", changes |-> {}]

NoSnapshot == [worktree |-> {}, stash |-> <<>>, behind |-> 0, ahead |-> 0, current |-> ""]

Snapshot ==
    [worktree |-> worktree, stash |-> stash, behind |-> behind,
     ahead |-> ahead, current |-> HeadBranch]

Plural(n) == IF n > 1 THEN "s" ELSE ""

PulledAndRestored(n) ==
    "Pulled " \o ToString(n) \o " commit" \o Plural(n) \o " and restored your uncommitted changes"

PulledFromOrigin(n) ==
    "Pulled " \o ToString(n) \o " commit" \o Plural(n) \o " from origin"

MSG_DETACHED == "Not on a branch (detached HEAD state)"
MSG_UP_TO_DATE == "Already up to date"
MSG_POP_CONFLICT == "Pulled successfully, but restoring your changes caused conflicts. Please resolve them."
MSG_IN_STASH == "Pulled successfully. Your changes are in the stash (run git stash pop to restore)."
MSG_PULL_CONFLICT == "Pull failed due to conflicts with incoming changes. Please resolve manually."
MSG_NO_TRACKING == "No remote tracking branch (will be created on push)"

\* The test without the list of untracked files.
hasUncommittedChanges_IgnoresUntracked(status) ==
    \/ Cardinality(status.modified) > 0
    \/ Cardinality(status.created) > 0
    \/ Cardinality(status.deleted) > 0
    \/ Cardinality(status.staged) > 0

\* Lines 2057-2062.
hasUncommittedChanges(status) ==
    \/ Cardinality(status.modified) > 0
    \/ Cardinality(status.not_added) > 0
    \/ Cardinality(status.created) > 0
    \/ Cardinality(status.deleted) > 0
    \/ Cardinality(status.staged) > 0

\* Line 2084: the test on stashMsg.
PopHadConflicts(stashMsg) ==
    Includes(stashMsg, "conflict") \/ Includes(stashMsg, "CONFLICT")

\* The test without 'could not apply'.
IsConflict_NoCouldNotApply(msg) ==
    \/ Includes(msg, "conflict")
    \/ Includes(msg, "CONFLICT")
    \/ Includes(msg, "Merge conflict")

\* Lines 2118-2123: the test on errorMessage.
IsConflict(msg) ==
    \/ Includes(msg, "conflict")
    \/ Includes(msg, "CONFLICT")
    \/ Includes(msg, "Merge conflict")
    \/ Includes(msg, "could not apply")

\* Line 2137.
IsNoTracking(msg) ==
    Includes(msg, "no tracking") \/ Includes(msg, "doesn't track")

\* A catch block that reports every failure as it is.
CatchResult_Raw(msg) == Returned(FALSE, msg, FALSE, FALSE)

\* Lines 2136-2141: what the catch block returns when the failure is no conflict.
CatchResult(msg) ==
    IF IsNoTracking(msg)
    THEN Returned(TRUE, MSG_NO_TRACKING, FALSE, FALSE)
    ELSE Returned(FALSE, msg, FALSE, FALSE)

\* Every failed pop reported as a conflict.
PopFailedResult_AlwaysConflict(stashMsg) == Returned(TRUE, MSG_POP_CONFLICT, TRUE, TRUE)

\* Lines 2082-2098: what the inner catch returns for a failed stash pop.
PopFailedResult(stashMsg) ==
    IF PopHadConflicts(stashMsg)
    THEN Returned(TRUE, MSG_POP_CONFLICT, TRUE, TRUE)
    ELSE Returned(TRUE, MSG_IN_STASH, FALSE, TRUE)

\* The call returns: the caller holds the result.
Finish(r) ==
    /\ pc' = "done"
    /\ result' = r

\* Lines 2117-2141, after the best-effort pop: a conflict goes on to
\* rebase --abort, anything else returns.
Classify(msg) ==
    IF IsConflict(msg)
    THEN pc' = "abort" /\ result' = result
    ELSE Finish(CatchResult(msg))

\* A catch block that hands the failure on to the caller.
Catch_Rethrows(cmd, msg) ==
    /\ errorMessage' = msg
    /\ failed' = failed \cup {[cmd |-> cmd, message |-> msg]}
    /\ Finish(Thrown(msg))

\* Lines 2105-2115: an awaited command rejected with msg. With didStash set the
\* stash pop of line 2111 is issued first.
Catch(cmd, msg) ==
    /\ errorMessage' = msg
    /\ failed' = failed \cup {[cmd |-> cmd, message |-> msg]}
    /\ IF didStash
       THEN pc' = "catchPop" /\ result' = result
       ELSE Classify(msg)

\* The command goes to the handle the global git holds at this moment.
Issue(cmd) ==
    /\ cmds' = Append(cmds, cmd)
    /\ ats' = Append(ats, git)

Issued(cmd) == \E i \in 1..Len(cmds) : cmds[i] = cmd

\* The command was rejected, and the rejection was handled where it was awaited.
Rejected(cmd, msg) == failed' = failed \cup {[cmd |-> cmd, message |-> msg]}

\* True while no operation of the service is between its call and its return.
Quiet == pc = "idle" /\ cpc = "idle" /\ spc = "idle"

\* Line 2037: no git handle, the call throws before the try block.
PullThrowsNoRepo ==
    /\ pc = "idle"
    /\ git = NULL
    /\ Finish(Thrown(E_NO_REPOSITORY))
    /\ atStart' = Snapshot
    /\ UNCHANGED <<failed, commitVars, stashVars, shimVars, mgrVars, hresult, factVars, convVars, repoVars, didStash, pushed, currentBranch, statusBefore, errorMessage, cmds, ats>>

\* Lines 2037-2042: the call enters the try block and awaits branchLocal().
PullCall ==
    /\ pc = "idle"
    /\ git /= NULL
    /\ Len(stash) < MaxStash
    /\ pc' = "branchLocal"
    /\ didStash' = FALSE
    /\ pushed' = NoEntry
    /\ failed' = {}
    /\ atStart' = Snapshot
    /\ Issue("branchLocal")
    /\ UNCHANGED <<commitVars, stashVars, shimVars, mgrVars, hresult, factVars, convVars, repoVars, currentBranch, statusBefore, errorMessage, result>>

\* Line 2042: branchLocal() fails (the directory is no repository any more).
PullBranchLocalFails ==
    /\ pc = "branchLocal"
    /\ Catch("branchLocal", E_NOT_REPO)
    /\ UNCHANGED <<commitVars, stashVars, shimVars, mgrVars, hresult, factVars, convVars, repoVars, didStash, pushed, currentBranch, statusBefore, cmds, ats, atStart>>

\* Lines 2042-2045: detached HEAD.
PullDetached ==
    /\ pc = "branchLocal"
    /\ HeadBranch = ""
    /\ currentBranch' = HeadBranch
    /\ Finish(Returned(FALSE, MSG_DETACHED, FALSE, FALSE))
    /\ UNCHANGED <<failed, commitVars, stashVars, shimVars, mgrVars, hresult, factVars, convVars, repoVars, didStash, pushed, statusBefore, errorMessage, cmds, ats, atStart>>

\* branchLocal() without the test of line 2043.
PullBranchLocal_AnyHead ==
    /\ pc = "branchLocal"
    /\ currentBranch' = HeadBranch
    /\ pc' = "fetch"
    /\ Issue("fetch")
    /\ UNCHANGED <<failed, commitVars, stashVars, shimVars, mgrVars, hresult, factVars, convVars, repoVars, didStash, pushed, statusBefore, errorMessage, result, atStart>>

\* Lines 2042-2048: on a branch, fetch is issued.
PullBranchLocal ==
    /\ pc = "branchLocal"
    /\ HeadBranch /= ""
    /\ currentBranch' = HeadBranch
    /\ pc' = "fetch"
    /\ Issue("fetch")
    /\ UNCHANGED <<failed, commitVars, stashVars, shimVars, mgrVars, hresult, factVars, convVars, repoVars, didStash, pushed, statusBefore, errorMessage, result, atStart>>

\* Line 2048: fetch succeeds and may learn of new remote commits; status is issued.
PullFetch ==
    /\ pc = "fetch"
    /\ \E b \in behind..MaxBehind : behind' = b
    /\ pc' = "status"
    /\ Issue("status")
    /\ UNCHANGED <<failed, commitVars, stashVars, shimVars, mgrVars, hresult, factVars, convVars, current, ahead, worktree, unmerged, rebasing, stash,
                   didStash, pushed, currentBranch, statusBefore, errorMessage, result, atStart>>

\* Line 2048: fetch fails (network).
PullFetchFails ==
    /\ pc = "fetch"
    /\ Catch("fetch", E_NETWORK)
    /\ UNCHANGED <<commitVars, stashVars, shimVars, mgrVars, hresult, factVars, convVars, repoVars, didStash, pushed, currentBranch, statusBefore, cmds, ats, atStart>>

\* Lines 2051-2054: behind is 0.
PullUpToDate ==
    /\ pc = "status"
    /\ Status.behind = 0
    /\ statusBefore' = Status
    /\ Finish(Returned(TRUE, MSG_UP_TO_DATE, FALSE, FALSE))
    /\ UNCHANGED <<failed, commitVars, stashVars, shimVars, mgrVars, hresult, factVars, convVars, repoVars, didStash, pushed, currentBranch, errorMessage, cmds, ats, atStart>>

\* The status step without the test of line 2052.
PullStatus_IgnoresBehind ==
    /\ pc = "status"
    /\ statusBefore' = Status
    /\ IF hasUncommittedChanges(Status)
       THEN pc' = "stashPush" /\ Issue("stash push")
       ELSE pc' = "pull" /\ Issue("pull")
    /\ UNCHANGED <<failed, commitVars, stashVars, shimVars, mgrVars, hresult, factVars, convVars, repoVars, didStash, pushed, currentBranch, errorMessage, result, atStart>>

\* Lines 2051-2071: behind, so the stash push or the pull is issued.
PullStatus ==
    /\ pc = "status"
    /\ Status.behind /= 0
    /\ statusBefore' = Status
    /\ IF hasUncommittedChanges(Status)
       THEN pc' = "stashPush" /\ Issue("stash push")
       ELSE pc' = "pull" /\ Issue("pull")
    /\ UNCHANGED <<failed, commitVars, stashVars, shimVars, mgrVars, hresult, factVars, convVars, repoVars, didStash, pushed, currentBranch, errorMessage, result, atStart>>

\* ------------------------------------------------ the git commands' effects
\* git stash push --include-untracked -m <message>: every uncommitted edit,
\* untracked files included, moves into a new entry stash@{0}.
StashPushed(message) ==
    /\ stash' = <<[message |-> message, changes |-> worktree]>> \o stash
    /\ worktree' = {}

\* git stash pop that applies cleanly: the edits of stash@{0} are back in the
\* working tree (the index is not restored) and the entry is dropped.
StashPopped ==
    /\ worktree' = worktree \cup Unstaged(stash[1].changes)
    /\ stash' = Tail(stash)

\* git stash pop that conflicts: the edits are in the working tree with conflict
\* markers, the index is unmerged, and git keeps the entry ("The stash entry is
\* kept in case you need it again").
StashPopConflicted ==
    /\ worktree' = worktree \cup Unstaged(stash[1].changes)
    /\ unmerged' = TRUE
    /\ stash' = stash

\* git rebase --abort: HEAD and the index go back to the branch as it was and
\* the working tree is reset (reset --hard): tracked edits are gone, untracked
\* files stay.
RebaseAborted ==
    /\ rebasing' = FALSE
    /\ unmerged' = FALSE
    /\ worktree' = worktree \ Tracked(worktree)

\* Line 2066: the stash push succeeds; the pull is issued.
PullStashPush ==
    /\ pc = "stashPush"
    /\ ~unmerged
    /\ worktree /= {}
    /\ StashPushed(AUTO_STASH_MESSAGE)
    /\ pushed' = [message |-> AUTO_STASH_MESSAGE, changes |-> worktree]
    /\ didStash' = TRUE
    /\ pc' = "pull"
    /\ Issue("pull")
    /\ UNCHANGED <<failed, commitVars, stashVars, shimVars, mgrVars, hresult, factVars, convVars, current, behind, ahead, unmerged, rebasing,
                   currentBranch, statusBefore, errorMessage, result, atStart>>

\* Line 2066: the stash push finds nothing to save ("No local changes to save",
\* exit 0), because another operation emptied the working tree after the status
\* was read; didStash is set all the same.
PullStashPushNothing ==
    /\ pc = "stashPush"
    /\ ~unmerged
    /\ worktree = {}
    /\ pushed' = NoEntry
    /\ didStash' = TRUE
    /\ pc' = "pull"
    /\ Issue("pull")
    /\ UNCHANGED <<failed, commitVars, stashVars, shimVars, mgrVars, hresult, factVars, convVars, repoVars,
                   currentBranch, statusBefore, errorMessage, result, atStart>>

\* Line 2066: the stash push fails: git refuses to stash an unmerged index.
PullStashPushFails ==
    /\ pc = "stashPush"
    /\ unmerged
    /\ Catch("stash push", E_NEEDS_MERGE)
    /\ UNCHANGED <<commitVars, stashVars, shimVars, mgrVars, hresult, factVars, convVars, repoVars, didStash, pushed, currentBranch, statusBefore, cmds, ats, atStart>>

\* What follows a successful pull: line 2076 issues the stash pop, or lines
\* 2101-2104 return.
AfterPull ==
    IF didStash
    THEN pc' = "pop" /\ Issue("stash pop") /\ result' = result
    ELSE Finish(Returned(TRUE, PulledFromOrigin(statusBefore.behind), FALSE, FALSE)) /\ cmds' = cmds /\ ats' = ats

\* Line 2071: pull --rebase succeeds: the branch holds the fetched commits.
PullPull ==
    /\ pc = "pull"
    /\ ~rebasing /\ ~unmerged /\ Tracked(worktree) = {}
    /\ behind' = 0
    /\ AfterPull
    /\ UNCHANGED <<failed, commitVars, stashVars, shimVars, mgrVars, hresult, factVars, convVars, current, ahead, worktree, unmerged, rebasing, stash,
                   didStash, pushed, currentBranch, statusBefore, errorMessage, atStart>>

\* Line 2071: the rebase stops on a local commit that conflicts with the
\* incoming ones. The rebase stays in progress. The index is unmerged, unless
\* git resolved the conflict from a recorded resolution (rerere.autoupdate), in
\* which case the rebase stops all the same with a clean index.
PullPullConflicts ==
    /\ pc = "pull"
    /\ ~rebasing /\ ~unmerged /\ Tracked(worktree) = {}
    /\ ahead > 0
    /\ rebasing' = TRUE
    /\ \E u \in BOOLEAN : unmerged' = u
    /\ \E msg \in {E_CONFLICT, E_COULD_NOT_APPLY} : Catch("pull", msg)
    /\ UNCHANGED <<commitVars, stashVars, shimVars, mgrVars, hresult, factVars, convVars, current, behind, ahead, worktree, stash,
                   didStash, pushed, currentBranch, statusBefore, cmds, ats, atStart>>

\* Line 2071: the pull fails before any rebase starts.
PullPullFails ==
    /\ pc = "pull"
    /\ \E msg \in {E_NETWORK, E_NO_TRACKING} : Catch("pull", msg)
    /\ UNCHANGED <<commitVars, stashVars, shimVars, mgrVars, hresult, factVars, convVars, repoVars, didStash, pushed, currentBranch, statusBefore, cmds, ats, atStart>>

\* The clean pop reported like a pull that stashed nothing.
PullPop_NotFlagged ==
    /\ pc = "pop"
    /\ Len(stash) > 0 /\ ~unmerged
    /\ StashPopped
    /\ Finish(Returned(TRUE, PulledFromOrigin(statusBefore.behind), FALSE, FALSE))
    /\ UNCHANGED <<failed, commitVars, stashVars, shimVars, mgrVars, hresult, factVars, convVars, current, behind, ahead, unmerged, rebasing,
                   didStash, pushed, currentBranch, statusBefore, errorMessage, cmds, ats, atStart>>

\* Lines 2076-2081: the pop after a successful pull applies cleanly.
PullPop ==
    /\ pc = "pop"
    /\ Len(stash) > 0 /\ ~unmerged
    /\ StashPopped
    /\ Finish(Returned(TRUE, PulledAndRestored(statusBefore.behind), FALSE, TRUE))
    /\ UNCHANGED <<failed, commitVars, stashVars, shimVars, mgrVars, hresult, factVars, convVars, current, behind, ahead, unmerged, rebasing,
                   didStash, pushed, currentBranch, statusBefore, errorMessage, cmds, ats, atStart>>

\* Lines 2082-2091: the stashed edits conflict with the pulled commits.
PullPopConflicts ==
    /\ pc = "pop"
    /\ Len(stash) > 0 /\ ~unmerged
    /\ StashPopConflicted
    /\ Rejected("stash pop", E_CONFLICT)
    /\ Finish(PopFailedResult(E_CONFLICT))
    /\ UNCHANGED <<commitVars, stashVars, shimVars, mgrVars, hresult, factVars, convVars, current, behind, ahead, rebasing,
                   didStash, pushed, currentBranch, statusBefore, errorMessage, cmds, ats, atStart>>

\* A failed pop handed to the outer catch block, which pops again.
PullPopFails_Retries ==
    /\ pc = "pop"
    /\ Rejected("stash pop", E_UNTRACKED)
    /\ errorMessage' = E_UNTRACKED
    /\ pc' = "catchPop"
    /\ UNCHANGED <<commitVars, stashVars, shimVars, mgrVars, hresult, factVars, convVars, repoVars, didStash, pushed, currentBranch, statusBefore, result, cmds, ats, atStart>>

\* Lines 2092-2097: the pop fails for another reason and changes nothing.
PullPopFails ==
    /\ pc = "pop"
    /\ Rejected("stash pop", E_UNTRACKED)
    /\ Finish(PopFailedResult(E_UNTRACKED))
    /\ UNCHANGED <<commitVars, stashVars, shimVars, mgrVars, hresult, factVars, convVars, repoVars, didStash, pushed, currentBranch, statusBefore, errorMessage, cmds, ats, atStart>>

\* Lines 2109-2115: the best-effort pop of the catch block applies cleanly.
PullCatchPop ==
    /\ pc = "catchPop"
    /\ Len(stash) > 0 /\ ~unmerged
    /\ StashPopped
    /\ Issue("stash pop")
    /\ Classify(errorMessage)
    /\ UNCHANGED <<failed, commitVars, stashVars, shimVars, mgrVars, hresult, factVars, convVars, current, behind, ahead, unmerged, rebasing,
                   didStash, pushed, currentBranch, statusBefore, errorMessage, atStart>>

\* A best-effort pop whose failure becomes the reported one.
PullCatchPopFails_Compounds ==
    /\ pc = "catchPop"
    /\ Issue("stash pop")
    /\ Rejected("stash pop", IF unmerged THEN E_MID_MERGE ELSE E_LOCK)
    /\ Classify(IF unmerged THEN E_MID_MERGE ELSE E_LOCK)
    /\ UNCHANGED <<commitVars, stashVars, shimVars, mgrVars, hresult, factVars, convVars, repoVars, didStash, pushed, currentBranch, statusBefore, errorMessage, atStart>>

\* Lines 2109-2115: the best-effort pop fails and the failure is swallowed: git
\* applies no stash onto an unmerged index, or the pop fails for another reason.
PullCatchPopFails ==
    /\ pc = "catchPop"
    /\ Issue("stash pop")
    /\ Rejected("stash pop", IF unmerged THEN E_MID_MERGE ELSE E_LOCK)
    /\ Classify(errorMessage)
    /\ UNCHANGED <<commitVars, stashVars, shimVars, mgrVars, hresult, factVars, convVars, repoVars, didStash, pushed, currentBranch, statusBefore, errorMessage, atStart>>

\* Lines 2124-2134: rebase --abort succeeds.
PullAbort ==
    /\ pc = "abort"
    /\ rebasing
    /\ RebaseAborted
    /\ Issue("rebase --abort")
    /\ Finish(Returned(FALSE, MSG_PULL_CONFLICT, TRUE, FALSE))
    /\ UNCHANGED <<failed, commitVars, stashVars, shimVars, mgrVars, hresult, factVars, convVars, current, behind, ahead, stash,
                   didStash, pushed, currentBranch, statusBefore, errorMessage, atStart>>

\* Lines 2124-2134: rebase --abort fails (no rebase in progress, or a lock) and
\* the failure is ignored.
PullAbortFails ==
    /\ pc = "abort"
    /\ Issue("rebase --abort")
    /\ Rejected("rebase --abort", IF rebasing THEN E_LOCK ELSE E_NO_REBASE)
    /\ Finish(Returned(FALSE, MSG_PULL_CONFLICT, TRUE, FALSE))
    /\ UNCHANGED <<commitVars, stashVars, shimVars, mgrVars, hresult, factVars, convVars, repoVars, didStash, pushed, currentBranch, statusBefore, errorMessage, atStart>>

\* The caller has taken the result; the invocation's frame is gone.
PullReturn ==
    /\ pc = "done"
    /\ pc' = "idle"
    /\ didStash' = FALSE
    /\ currentBranch' = ""
    /\ statusBefore' = NoStatus
    /\ errorMessage' = ""
    /\ result' = NoResult
    /\ cmds' = <<>>
    /\ ats' = <<>>
    /\ pushed' = NoEntry
    /\ failed' = {}
    /\ atStart' = NoSnapshot
    /\ UNCHANGED <<commitVars, stashVars, shimVars, mgrVars, hresult, factVars, convVars, repoVars>>

PullStep ==
    \/ PullBranchLocalFails \/ PullDetached \/ PullBranchLocal
    \/ PullFetch \/ PullFetchFails
    \/ PullUpToDate \/ PullStatus
    \/ PullStashPush \/ PullStashPushFails
    \/ PullPull \/ PullPullConflicts \/ PullPullFails
    \/ PullPop \/ PullPopConflicts \/ PullPopFails
    \/ PullCatchPop \/ PullCatchPopFails
    \/ PullAbort \/ PullAbortFails

\* ------------------------------------- commands that run somewhere else
\* The handle a command goes to is read from the global git when the command
\* is issued. RunsIn is the directory of the command that completes next: the
\* awaited one, or the one the catch block is about to issue.
RunsIn == IF pc \in {"catchPop", "abort"} THEN git ELSE ats[Len(ats)]

\* The command the invocation is suspended at.
Awaited ==
    CASE pc = "stashPush" -> "stash push"
      [] pc = "pop" -> "stash pop"
      [] OTHER -> pc

E_NULL_HANDLE == "Cannot read properties of null"

\* What a command comes to outside the repository: git rejects it in a
\* directory that is no repository; a null handle has no method to call.
ElsewhereMessage == IF RunsIn = NULL THEN E_NULL_HANDLE ELSE E_NOT_REPO

\* Lines 2042-2071: an awaited command of the try block is rejected.
PullMainElsewhere ==
    /\ pc \in {"branchLocal", "fetch", "status", "stashPush", "pull"}
    /\ Catch(Awaited, ElsewhereMessage)
    /\ UNCHANGED <<commitVars, stashVars, shimVars, mgrVars, hresult, factVars, convVars, repoVars,
                   didStash, pushed, currentBranch, statusBefore, cmds, ats, atStart>>

\* Lines 2076-2097: the stash pop after the pull is rejected.
PullPopElsewhere ==
    /\ pc = "pop"
    /\ Rejected("stash pop", ElsewhereMessage)
    /\ Finish(PopFailedResult(ElsewhereMessage))
    /\ UNCHANGED <<commitVars, stashVars, shimVars, mgrVars, hresult, factVars, convVars, repoVars,
                   didStash, pushed, currentBranch, statusBefore, errorMessage, cmds, ats, atStart>>

\* Lines 2109-2115: the best-effort pop is rejected and the failure swallowed.
PullCatchPopElsewhere ==
    /\ pc = "catchPop"
    /\ Issue("stash pop")
    /\ Rejected("stash pop", ElsewhereMessage)
    /\ Classify(errorMessage)
    /\ UNCHANGED <<commitVars, stashVars, shimVars, mgrVars, hresult, factVars, convVars, repoVars,
                   didStash, pushed, currentBranch, statusBefore, errorMessage, atStart>>

\* Lines 2124-2134: rebase --abort is rejected and the failure ignored.
PullAbortElsewhere ==
    /\ pc = "abort"
    /\ Issue("rebase --abort")
    /\ Rejected("rebase --abort", ElsewhereMessage)
    /\ Finish(Returned(FALSE, MSG_PULL_CONFLICT, TRUE, FALSE))
    /\ UNCHANGED <<commitVars, stashVars, shimVars, mgrVars, hresult, factVars, convVars, repoVars,
                   didStash, pushed, currentBranch, statusBefore, errorMessage, atStart>>

PullStepElsewhere ==
    \/ PullMainElsewhere \/ PullPopElsewhere
    \/ PullCatchPopElsewhere \/ PullAbortElsewhere

\* ------------------------------------------------- the context factory
\* The directories a caller can pass: the repository's root, the root with a
\* trailing separator, two of its subdirectories, two other repositories, and
\* a directory that is no git working tree.
OTHER_REPO == "/other"
THIRD_REPO == "/third"
PLAIN == "/tmp/plain"
Paths == {REPO, "/repo/", "/repo/src", "/repo/docs", OTHER_REPO, THIRD_REPO, PLAIN}

StartsWith(s, p) == Len(s) >= Len(p) /\ SubSeq(s, 1, Len(p)) = p

\* git.checkIsRepo() run in the directory.
IsRepo(dir) ==
    StartsWith(dir, REPO) \/ StartsWith(dir, OTHER_REPO) \/ StartsWith(dir, THIRD_REPO)

\* git rev-parse --show-toplevel run in the directory, trimmed.
Root(dir) ==
    IF StartsWith(dir, REPO) THEN REPO
    ELSE IF StartsWith(dir, OTHER_REPO) THEN OTHER_REPO
    ELSE IF StartsWith(dir, THIRD_REPO) THEN THIRD_REPO
    ELSE dir

\* What the factory hands back when it throws.
NotAGitRepository == [id |-> 0, path |-> NULL, git |-> NULL, via |-> NULL]

\* A factory that stores the path it was given.
createRepositoryContext_RawPath(dir, id) ==
    IF ~IsRepo(dir)
    THEN NotAGitRepository
    ELSE [id |-> id, path |-> dir, git |-> dir, via |-> dir]

\* A factory without the validation of lines 163-166.
createRepositoryContext_NoCheck(dir, id) ==
    [id |-> id, path |-> Root(dir), git |-> Root(dir), via |-> dir]

\* Lines 159-194: the context of the repository the directory is in: path is
\* the repository root, git a fresh handle bound to the root, id a fresh uuid.
\* The field via records the directory the context was created from.
createRepositoryContext(dir, id) ==
    IF ~IsRepo(dir)
    THEN NotAGitRepository
    ELSE [id |-> id, path |-> Root(dir), git |-> Root(dir), via |-> dir]

\* ------------------------------------------- the repository's metadata
\* The remote URLs of origin.
Urls ==
    {"https://github.com/x/y.git", "git@gitlab.com:x/y.git", "HTTPS://GitHub.COM/X/Y.git",
     "https://gitlab.example.org/x/y.git", "git@bitbucket.org:x/y.git",
     "https://git.example.com/BitBucket/x.git", "https://dev.azure.com/org/x",
     "https://org.visualstudio.com/x", "https://github.com/gitlab-org/bitbucket.git",
     "https://dev.azure.com/gitlab/x", "https://example.com/github/x.git", "/srv/git/y.git"}

UPPER == "ABCDEFGHIJKLMNOPQRSTUVWXYZ"
LOWER == "abcdefghijklmnopqrstuvwxyz"

\* One character of String.prototype.toLowerCase.
LowerChar(c) ==
    IF \E i \in 1..Len(UPPER) : SubSeq(UPPER, i, i) = c
    THEN LET i == CHOOSE i \in 1..Len(UPPER) : SubSeq(UPPER, i, i) = c
         IN  SubSeq(LOWER, i, i)
    ELSE c

RECURSIVE toLowerCase(_)
toLowerCase(s) ==
    IF s = "" THEN "" ELSE LowerChar(SubSeq(s, 1, 1)) \o toLowerCase(SubSeq(s, 2, Len(s)))

\* detectProvider that compares the URL as it is written.
detectProvider_CaseSensitive(remoteUrl) ==
    IF remoteUrl = NULL \/ remoteUrl = "" THEN "local"
    ELSE IF Includes(remoteUrl, "github.com") THEN "github"
    ELSE IF Includes(remoteUrl, "gitlab.com") \/ Includes(remoteUrl, "gitlab") THEN "gitlab"
    ELSE IF Includes(remoteUrl, "bitbucket.org") \/ Includes(remoteUrl, "bitbucket") THEN "bitbucket"
    ELSE IF Includes(remoteUrl, "azure.com") \/ Includes(remoteUrl, "visualstudio.com") THEN "azure"
    ELSE "local"

\* part_001 lines 76-87.
detectProvider(remoteUrl) ==
    IF remoteUrl = NULL \/ remoteUrl = "" THEN "local"
    ELSE LET url == toLowerCase(remoteUrl)
         IN  IF Includes(url, "github.com") THEN "github"
             ELSE IF Includes(url, "gitlab.com") \/ Includes(url, "gitlab") THEN "gitlab"
             ELSE IF Includes(url, "bitbucket.org") \/ Includes(url, "bitbucket") THEN "bitbucket"
             ELSE IF Includes(url, "azure.com") \/ Includes(url, "visualstudio.com") THEN "azure"
             ELSE "local"

\* What git.getRemotes(true) comes to: it throws, there is no origin, or origin
\* has the URL (fetch and push alike).
NO_ORIGIN == "no origin"
THREW == "threw"
Remotes == {THREW, NO_ORIGIN} \cup Urls

\* Lines 131-139: origin's fetch URL, null without one or when the query throws.
getRemoteUrl(remotes) == IF remotes \in {THREW, NO_ORIGIN} THEN NULL ELSE remotes

\* What origin answers to git remote show origin: it cannot be shown (there
\* is no origin, or it is unreachable), it advertises a HEAD branch, it advertises none (an empty
\* repository), or several branches may be its HEAD.
Origins ==
    {[kind |-> "unreachable", head |-> NULL],
     [kind |-> "head", head |-> "main"],
     [kind |-> "head", head |-> "trunk"],
     [kind |-> "nohead", head |-> NULL],
     [kind |-> "ambiguous", head |-> NULL]}

\* The text git remote show origin prints (builtin/remote.c, show_remote).
RemoteShowText(origin) ==
    "* remote origin\n  Fetch URL: origin\n  Push  URL: origin\n"
        \o (IF origin.kind = "head" THEN "  HEAD branch: " \o origin.head \o "\n"
            ELSE IF origin.kind = "nohead" THEN "  HEAD branch: (unknown)\n"
            ELSE "  HEAD branch (remote HEAD is ambiguous, may be one of the following):\n"
                     \o "    main\n    master\n")

\* \s of a regular expression, among the characters git prints.
IsSpace(c) == c \in {" ", "\n", "\t"}

HEAD_BRANCH == "HEAD branch: "

\* The positions where /HEAD branch: (\S+)/ matches.
MatchStarts(text) ==
    {i \in 1..Len(text) :
        /\ i + Len(HEAD_BRANCH) <= Len(text)
        /\ SubSeq(text, i, i + Len(HEAD_BRANCH) - 1) = HEAD_BRANCH
        /\ ~IsSpace(SubSeq(text, i + Len(HEAD_BRANCH), i + Len(HEAD_BRANCH)))}

\* The longest run of non-space characters from position i on.
RECURSIVE NonSpaceRun(_, _)
NonSpaceRun(text, i) ==
    IF i > Len(text) \/ IsSpace(SubSeq(text, i, i)) THEN ""
    ELSE SubSeq(text, i, i) \o NonSpaceRun(text, i + 1)

\* Lines 104-107: match[1] of remoteInfo.match(/HEAD branch: (\S+)/), NULL when
\* remoteInfo is empty or nothing matches.
HeadBranchOf(remoteInfo) ==
    IF remoteInfo = "" \/ MatchStarts(remoteInfo) = {} THEN NULL
    ELSE LET i == CHOOSE i \in MatchStarts(remoteInfo) : \A j \in MatchStarts(remoteInfo) : i <= j
         IN  NonSpaceRun(remoteInfo, i + Len(HEAD_BRANCH))

\* What git.branchLocal() comes to: it throws, or lists the local branches.
BranchLists ==
    {<<>>, <<"main">>, <<"develop", "master">>, <<"develop", "main", "master">>,
     <<"feature", "develop">>}

LocalBranches == {[threw |-> TRUE, all |-> <<>>]} \cup {[threw |-> FALSE, all |-> b] : b \in BranchLists}

Contains(list, x) == \E i \in 1..Len(list) : list[i] = x

\* Lines 113-122: the branch chosen from the local branches.
LocalDefault(branches) ==
    IF branches.threw THEN "main"
    ELSE IF Contains(branches.all, "main") THEN "main"
    ELSE IF Contains(branches.all, "master") THEN "master"
    ELSE IF Len(branches.all) > 0 THEN branches.all[1]
    ELSE "main"

\* ------------------------------ createRepositoryContext, await by await
NoArg == [dir |-> NULL, remotes |-> NO_ORIGIN, origin |-> [kind |-> "unreachable", head |-> NULL],
          branches |-> [threw |-> FALSE, all |-> <<>>]]

NoMeta == [actualPath |-> NULL, remoteUrl |-> NULL, defaultBranch |-> NULL]

NoContext ==
    [kind |-> "none", message |-> "", path |-> NULL, git |-> NULL,
     remoteUrl |-> NULL, provider |-> "", defaultBranch |-> NULL]

E_NOT_A_REPOSITORY(dir) == "Path is not a git repository: " \o dir

FIssue(cmd) == fcmds' = Append(fcmds, cmd)

\* Lines 159-163: the call; git.checkIsRepo() is awaited.
FactoryCall ==
    /\ fpc = "idle"
    /\ \E dir \in Paths, r \in Remotes, o \in Origins, b \in LocalBranches :
        /\ (r \notin Urls) => (o.kind = "unreachable")
        /\ farg' = [dir |-> dir, remotes |-> r, origin |-> o, branches |-> b]
    /\ fpc' = "checkIsRepo"
    /\ fmeta' = NoMeta
    /\ fcmds' = <<"checkIsRepo">>
    /\ fout' = NoContext

\* The check of lines 164-166 skipped: the path is used as it is.
FactoryNotRepo_FallsBack ==
    /\ fpc = "checkIsRepo"
    /\ ~IsRepo(farg.dir)
    /\ fpc' = "revparse"
    /\ FIssue("revparse")
    /\ UNCHANGED <<farg, fmeta, fout>>

\* Lines 163-166: the directory is in no git working tree; the factory throws.
FactoryNotRepo ==
    /\ fpc = "checkIsRepo"
    /\ ~IsRepo(farg.dir)
    /\ fpc' = "done"
    /\ fout' = [NoContext EXCEPT !.kind = "threw", !.message = E_NOT_A_REPOSITORY(farg.dir)]
    /\ UNCHANGED <<farg, fmeta, fcmds>>

\* Lines 163-169: it is a repository; rev-parse --show-toplevel is awaited.
FactoryIsRepo ==
    /\ fpc = "checkIsRepo"
    /\ IsRepo(farg.dir)
    /\ fpc' = "revparse"
    /\ FIssue("revparse")
    /\ UNCHANGED <<farg, fmeta, fout>>

\* Lines 169-173: actualPath is the trimmed root; getRemoteUrl awaits getRemotes.
FactoryRevparse ==
    /\ fpc = "revparse"
    /\ fmeta' = [fmeta EXCEPT !.actualPath = Root(farg.dir)]
    /\ fpc' = "getRemotes"
    /\ FIssue("getRemotes")
    /\ UNCHANGED <<farg, fout>>

\* Lines 173-174 and 101-103: remoteUrl is set; getDefaultBranch awaits
\* git remote show origin.
FactoryGetRemotes ==
    /\ fpc = "getRemotes"
    /\ fmeta' = [fmeta EXCEPT !.remoteUrl = getRemoteUrl(farg.remotes)]
    /\ fpc' = "remoteShow"
    /\ FIssue("remote show origin")
    /\ UNCHANGED <<farg, fout>>

\* Lines 175-193: the context is put together and returned.
FactoryFinish(defaultBranch) ==
    /\ fpc' = "done"
    /\ fmeta' = [fmeta EXCEPT !.defaultBranch = defaultBranch]
    /\ LET ctx == createRepositoryContext(farg.dir, nextId)
       IN  fout' = [kind |-> "returned", message |-> "", path |-> fmeta.actualPath,
                    git |-> ctx.git, remoteUrl |-> fmeta.remoteUrl,
                    provider |-> detectProvider(fmeta.remoteUrl),
                    defaultBranch |-> defaultBranch]

\* Lines 103-107: origin is shown and the text has a match: match[1] is the
\* default branch.
FactoryRemoteHead ==
    /\ fpc = "remoteShow"
    /\ farg.origin.kind /= "unreachable"
    /\ HeadBranchOf(RemoteShowText(farg.origin)) /= NULL
    /\ FactoryFinish(HeadBranchOf(RemoteShowText(farg.origin)))
    /\ UNCHANGED <<farg, fcmds>>

\* Lines 103-114: the query throws, or its text has no match; branchLocal() is
\* awaited.
FactoryNoRemoteHead ==
    /\ fpc = "remoteShow"
    /\ \/ farg.origin.kind = "unreachable"
       \/ HeadBranchOf(RemoteShowText(farg.origin)) = NULL
    /\ fpc' = "branchLocal"
    /\ FIssue("branchLocal")
    /\ UNCHANGED <<farg, fmeta, fout>>

\* Lines 113-122: the default branch from the local branches.
FactoryBranchLocal ==
    /\ fpc = "branchLocal"
    /\ FactoryFinish(LocalDefault(farg.branches))
    /\ UNCHANGED <<farg, fcmds>>

\* The caller has taken the context or the error.
FactoryReturn ==
    /\ fpc = "done"
    /\ fpc' = "idle"
    /\ farg' = NoArg
    /\ fmeta' = NoMeta
    /\ fcmds' = <<>>
    /\ fout' = NoContext

\* detectProvider called on its own, with a URL, the empty string or null.
DetectProvider ==
    /\ fpc = "idle"
    /\ \E url \in Urls \cup {NULL, ""} :
        fout' = [NoContext EXCEPT !.kind = "provider", !.remoteUrl = url,
                                  !.provider = detectProvider(url)]
    /\ UNCHANGED <<fpc, farg, fmeta, fcmds>>

NotFactory == UNCHANGED <<shimVars, mgrVars, hresult, convVars, repoVars, pullVars, commitVars, stashVars>>

\* ------------------------------------------------- the legacy globals
\* Lines 397-405: the callback initializeLegacySync registers.
LegacySync(newPath) ==
    /\ repoPath' = newPath
    /\ git' = newPath

\* ------------------------------------------------- the RepositoryManager
Ids(ctxs) == {c.id : c \in ctxs}

NoCall == [op |-> "none", arg |-> NULL, id |-> 0, threw |-> FALSE]

\* path.resolve on an absolute path: a trailing separator goes.
Normalize(dir) ==
    IF Len(dir) > 1 /\ SubSeq(dir, Len(dir), Len(dir)) = "/"
    THEN SubSeq(dir, 1, Len(dir) - 1)
    ELSE dir

\* getActive(): the active context's path, NULL without an active context.
active ==
    IF activeId \in Ids(contexts)
    THEN (CHOOSE c \in contexts : c.id = activeId).path
    ELSE NULL

\* open() that never finds an open context.
FindOpen_Never(made) == {}

\* open(): the open contexts with the canonical path of the one asked for.
FindOpen(made) == {c \in contexts : c.path = made.path}

\* open(dir): what the call comes to. It throws what the factory throws; it
\* hands back the context already open for the repository, or the new one.
Opened(dir) ==
    LET made == createRepositoryContext(Normalize(dir), nextId)
        found == FindOpen(made)
    IN  IF made = NotAGitRepository
        THEN [threw |-> TRUE, isNew |-> FALSE, ctx |-> made]
        ELSE IF found /= {}
        THEN [threw |-> FALSE, isNew |-> FALSE, ctx |-> CHOOSE c \in found : TRUE]
        ELSE [threw |-> FALSE, isNew |-> TRUE, ctx |-> made]

\* open(dir) on the manager's own state: a failure changes nothing; otherwise
\* the context is in the registry and active, and the legacy-sync callback is
\* invoked with its path.
ManagerOpened(dir, o) ==
    /\ o.isNew => nextId <= MaxContexts
    /\ mcall' = [op |-> "open", arg |-> dir, id |-> o.ctx.id, threw |-> o.threw]
    /\ IF o.threw
       THEN UNCHANGED <<contexts, activeId, nextId, synced>>
       ELSE /\ contexts' = contexts \cup {o.ctx}
            /\ activeId' = o.ctx.id
            /\ nextId' = IF o.isNew THEN nextId + 1 ELSE nextId
            /\ synced' = o.ctx.path

\* manager.open(dir) called on its own.
ManagerOpen(dir) ==
    /\ Quiet
    /\ LET o == Opened(dir)
       IN  /\ ManagerOpened(dir, o)
           /\ IF o.threw THEN UNCHANGED shimVars ELSE LegacySync(o.ctx.path)
    /\ UNCHANGED <<hresult, factVars, convVars, repoVars, pullVars, commitVars, stashVars>>

\* close(id) that makes another open context active.
ManagerClose_Promotes(id) ==
    /\ Quiet
    /\ id \in Ids(contexts)
    /\ contexts' = {c \in contexts : c.id /= id}
    /\ mcall' = [op |-> "close", arg |-> NULL, id |-> id, threw |-> FALSE]
    /\ IF id = activeId
       THEN IF contexts' = {}
            THEN activeId' = 0 /\ synced' = NULL /\ LegacySync(NULL)
            ELSE LET c == CHOOSE c \in contexts' : TRUE
                 IN  activeId' = c.id /\ synced' = c.path /\ LegacySync(c.path)
       ELSE UNCHANGED <<activeId, synced, shimVars>>
    /\ UNCHANGED <<nextId, hresult, factVars, convVars, repoVars, pullVars, commitVars, stashVars>>

\* close(id) that leaves the active pointer alone.
ManagerClose_KeepsActive(id) ==
    /\ Quiet
    /\ id \in Ids(contexts)
    /\ contexts' = {c \in contexts : c.id /= id}
    /\ mcall' = [op |-> "close", arg |-> NULL, id |-> id, threw |-> FALSE]
    /\ UNCHANGED <<activeId, synced, shimVars>>
    /\ UNCHANGED <<nextId, hresult, factVars, convVars, repoVars, pullVars, commitVars, stashVars>>

\* close(id) that does not invoke the callback.
ManagerClose_NoSync(id) ==
    /\ Quiet
    /\ id \in Ids(contexts)
    /\ contexts' = {c \in contexts : c.id /= id}
    /\ mcall' = [op |-> "close", arg |-> NULL, id |-> id, threw |-> FALSE]
    /\ activeId' = IF id = activeId THEN 0 ELSE activeId
    /\ UNCHANGED <<synced, shimVars>>
    /\ UNCHANGED <<nextId, hresult, factVars, convVars, repoVars, pullVars, commitVars, stashVars>>

\* close(id): the context leaves the registry; if it was the active one the
\* active pointer becomes null and the callback is invoked with null.
ManagerClose(id) ==
    /\ Quiet
    /\ id \in Ids(contexts)
    /\ contexts' = {c \in contexts : c.id /= id}
    /\ mcall' = [op |-> "close", arg |-> NULL, id |-> id, threw |-> FALSE]
    /\ IF id = activeId
       THEN activeId' = 0 /\ synced' = NULL /\ LegacySync(NULL)
       ELSE UNCHANGED <<activeId, synced, shimVars>>
    /\ UNCHANGED <<nextId, hresult, factVars, convVars, repoVars, pullVars, commitVars, stashVars>>

\* A saved directory that has been deleted since.
MISSING == "/gone"

\* simpleGit(dir): the constructor of simple-git throws for a base directory
\* that does not exist.
simpleGitThrows(dir) == dir = MISSING

\* Lines 413-416: repoPath is assigned first; when simpleGit(newPath) throws,
\* the handle keeps its value and the exception leaves the function.
setRepoPath(newPath) ==
    /\ repoPath' = newPath
    /\ git' = IF simpleGitThrows(newPath) THEN git ELSE newPath

\* setRepoPath called on its own, also while an operation of the service is
\* suspended at an await.
SetRepoPath(dir) ==
    /\ setRepoPath(dir)
    /\ UNCHANGED <<mgrVars, hresult, factVars, convVars, repoVars, pullVars, commitVars, stashVars>>

\* Lines 429-432, also while an operation of the service is suspended at an
\* await.
ClearLegacyState ==
    /\ git' = NULL
    /\ repoPath' = NULL
    /\ UNCHANGED <<mgrVars, hresult, factVars, convVars, repoVars, pullVars, commitVars, stashVars>>

\* ------------------------------------------------------------ the selection
\* select-repo with the directory the user picked (part_002 lines 14-40):
\* manager.open(dir), then setRepoPath(ctx.path); if open throws, the fallback
\* setRepoPath(dir) of lines 34-38.
SelectRepoPath(dir) ==
    /\ Quiet
    /\ LET o == Opened(dir)
       IN  /\ ManagerOpened(dir, o)
           /\ setRepoPath(IF o.threw THEN dir ELSE o.ctx.path)
    /\ UNCHANGED <<hresult, factVars, convVars, repoVars, pullVars, commitVars, stashVars>>

\* load-saved-repo with the saved (or --repo=) directory (part_002 lines
\* 56-85): the same open, setRepoPath and fallback.
LoadSavedRepo(dir) ==
    /\ Quiet
    /\ LET o == Opened(dir)
       IN  /\ ManagerOpened(dir, o)
           /\ setRepoPath(IF o.threw THEN dir ELSE o.ctx.path)
    /\ UNCHANGED <<hresult, factVars, convVars, repoVars, pullVars, commitVars, stashVars>>

\* The user selects the repository the git operations of this model run in.
SelectRepo == SelectRepoPath(REPO)

\* WorkView.tsx lines 421-423.
getRepoPath == repoPath

\* The get-repo-path handler (part_002 lines 42-50): the active context's
\* path if the manager has one, the legacy path otherwise.
GetRepoPathHandler == IF active /= NULL THEN active ELSE getRepoPath

\* What select-repo and load-saved-repo return for the directory: the path of
\* the opened context, or the directory itself after the fallback.
SelectedPath(dir) == IF Opened(dir).threw THEN dir ELSE Opened(dir).ctx.path

\* A requireContext that falls back to the legacy handle when the manager has
\* no active context.
requireContext_LegacyFallback == IF active /= NULL THEN active ELSE git

\* WorkView.tsx lines 442-451: the manager's active context; NULL stands for
\* the throw of 'No repository selected. Use RepositoryManager.open() ...'.
requireContext == active

\* ------------------------------------------------------------ commitChanges
NoCommitResult ==
    [kind |-> "none", success |-> FALSE, message |-> "", behindCount |-> 0, commit |-> 0]

MSG_BEHIND == "Origin has new commits"
MSG_COMMITTED == "Committed"
E_UNMERGED == "error: Committing is not possible because you have unmerged files."

\* The content of the index that a commit records.
Staged(edits) == {e \in edits : e.kind \in {"staged", "created"}}

\* A default of true for the omitted argument.
force_DefaultsToTrue(arg) == arg /= "false"

\* The argument dropped on the way to the service.
force_Dropped(arg) == FALSE

\* Line 2162: the parameter force, false when the argument is omitted.
force(arg) == IF arg = "omitted" THEN FALSE ELSE arg = "true"

\* Lines 442-451: requireContext() throws without an active context.
CommitThrowsNoRepo ==
    /\ cpc = "idle"
    /\ requireContext = NULL
    /\ \E f \in {"omitted", "false", "true"} : forceArg' = f
    /\ cpc' = "done"
    /\ cresult' = [NoCommitResult EXCEPT !.kind = "threw", !.message = E_NO_CONTEXT]
    /\ catStart' = Snapshot
    /\ UNCHANGED <<shimVars, mgrVars, hresult, factVars, convVars, repoVars, pullVars, stashVars>>

\* Lines 2159-2165: the call; the service fetches the remote silently.
CommitCall ==
    /\ cpc = "idle"
    /\ requireContext /= NULL
    /\ ahead < MaxCommits
    /\ \E f \in {"omitted", "false", "true"} : forceArg' = f
    /\ cpc' = "fetch"
    /\ catStart' = Snapshot
    /\ UNCHANGED <<shimVars, mgrVars, hresult, factVars, convVars, repoVars, pullVars, stashVars, cresult>>

\* The silent fetch completes and may learn of new remote commits: the behind
\* count read after it is accurate.
Fetched(b) ==
    /\ b \in behind..MaxBehind
    /\ behind' = b

\* Behind and not forced: the structured behind result, no commit.
CommitBehind ==
    /\ cpc = "fetch"
    /\ \E b \in 0..MaxBehind :
        /\ Fetched(b)
        /\ b > 0 /\ ~force(forceArg)
        /\ cresult' = [NoCommitResult EXCEPT !.kind = "returned", !.message = MSG_BEHIND,
                                            !.behindCount = b]
    /\ cpc' = "done"
    /\ UNCHANGED <<shimVars, mgrVars, hresult, factVars, convVars, current, ahead, worktree, unmerged, rebasing, stash,
                   pullVars, stashVars, forceArg, catStart>>

\* Not behind, or forced: the commit is issued.
CommitProceeds ==
    /\ cpc = "fetch"
    /\ \E b \in 0..MaxBehind :
        /\ Fetched(b)
        /\ b = 0 \/ force(forceArg)
    /\ cpc' = "commit"
    /\ UNCHANGED <<shimVars, mgrVars, hresult, factVars, convVars, current, ahead, worktree, unmerged, rebasing, stash,
                   pullVars, stashVars, forceArg, cresult, catStart>>

\* git commit records the staged content as a new local commit.
CommitCommits ==
    /\ cpc = "commit"
    /\ Staged(worktree) /= {} /\ ~unmerged
    /\ worktree' = worktree \ Staged(worktree)
    /\ ahead' = ahead + 1
    /\ cpc' = "done"
    /\ cresult' = [NoCommitResult EXCEPT !.kind = "returned", !.success = TRUE,
                                        !.message = MSG_COMMITTED, !.commit = ahead + 1]
    /\ UNCHANGED <<shimVars, mgrVars, hresult, factVars, convVars, current, behind, unmerged, rebasing, stash,
                   pullVars, stashVars, forceArg, catStart>>

\* git commit fails: nothing staged, or unmerged files.
CommitFails ==
    /\ cpc = "commit"
    /\ Staged(worktree) = {} \/ unmerged
    /\ cpc' = "done"
    /\ cresult' = [NoCommitResult EXCEPT !.kind = "returned",
                                        !.message = IF unmerged THEN E_UNMERGED ELSE E_NOTHING]
    /\ UNCHANGED <<shimVars, mgrVars, hresult, factVars, convVars, repoVars, pullVars, stashVars, forceArg, catStart>>

CommitReturn ==
    /\ cpc = "done"
    /\ cpc' = "idle"
    /\ forceArg' = "omitted"
    /\ cresult' = NoCommitResult
    /\ catStart' = NoSnapshot
    /\ UNCHANGED <<shimVars, mgrVars, hresult, factVars, convVars, repoVars, pullVars, stashVars>>

CommitStep ==
    \/ CommitBehind \/ CommitProceeds \/ CommitCommits \/ CommitFails

\* -------------------------------------------------------- popStash, dropStash
\* The stash list without its entry stash@{i}.
WithoutEntry(list, i) ==
    SubSeq(list, 1, i) \o SubSeq(list, i + 2, Len(list))

\* The call returns {success, message}; its frame is gone.
StashOpReturns ==
    /\ spc' = "idle"
    /\ sop' = "pop"
    /\ stashIndex' = 0

\* Lines 1732-1736 and 1744-1748: the call issues its git command.
StashOpCall ==
    /\ spc = "idle"
    /\ git = REPO
    /\ \E op \in {"pop", "drop"} : sop' = op
    /\ \E i \in 0..Len(stash) : stashIndex' = i
    /\ spc' = "run"
    /\ UNCHANGED <<shimVars, mgrVars, hresult, factVars, convVars, repoVars, pullVars, commitVars>>

\* Line 1736: git stash pop stash@{i} applies the entry and removes it.
PopStashDone ==
    /\ spc = "run" /\ sop = "pop"
    /\ stashIndex < Len(stash) /\ ~unmerged
    /\ worktree' = worktree \cup Unstaged(stash[stashIndex + 1].changes)
    /\ stash' = WithoutEntry(stash, stashIndex)
    /\ StashOpReturns
    /\ UNCHANGED <<shimVars, mgrVars, hresult, factVars, convVars, current, behind, ahead, unmerged, rebasing,
                   pullVars, commitVars>>

\* Line 1748: git stash drop stash@{i} removes the entry without applying it.
DropStashDone ==
    /\ spc = "run" /\ sop = "drop"
    /\ stashIndex < Len(stash)
    /\ stash' = WithoutEntry(stash, stashIndex)
    /\ StashOpReturns
    /\ UNCHANGED <<shimVars, mgrVars, hresult, factVars, convVars, current, behind, ahead, worktree, unmerged, rebasing,
                   pullVars, commitVars>>

\* Lines 1738-1740 and 1750-1752: the command fails (no such entry, or an
\* unmerged index) and {success: false, message} is returned.
StashOpFails ==
    /\ spc = "run"
    /\ stashIndex >= Len(stash) \/ (sop = "pop" /\ unmerged)
    /\ StashOpReturns
    /\ UNCHANGED <<shimVars, mgrVars, hresult, factVars, convVars, repoVars, pullVars, commitVars>>

StashOpStep == PopStashDone \/ DropStashDone \/ StashOpFails

\* ------------------------------------------------- the branch IPC handlers
ListHandlers == {"get-branches", "get-branches-basic", "get-branches-with-metadata"}

ActHandlers ==
    {"checkout-branch", "create-branch", "push-branch", "checkout-remote-branch", "pull-branch"}

BranchHandlers == ListHandlers \cup ActHandlers

E_BRANCH == "fatal: a branch operation failed"

\* The field caught tells that the git-service call threw.
NoHandlerResult ==
    [handler |-> "", kind |-> "none", shape |-> "", message |-> "", caught |-> FALSE]

\* What a git-service call comes to: it throws an Error, or returns a value
\* (for the acting functions a {success, message} record).
Throws(message) == [threw |-> TRUE, success |-> FALSE, message |-> message]

Returns(success, message) == [threw |-> FALSE, success |-> success, message |-> message]

\* Lines 811-829: pullBranch throws without a git handle; a failing fetch is
\* returned as {success: false, message}.
pullBranch ==
    IF git = NULL
    THEN {Throws(E_NO_REPOSITORY)}
    ELSE {Returns(TRUE, "Fetched"), Returns(FALSE, E_NETWORK)}

\* The wrappers of lines 465-641: requireContext() throws without an active
\* context; the branch service returns its result or throws.
BranchCall(h) ==
    IF h = "pull-branch" THEN pullBranch
    ELSE IF requireContext = NULL THEN {Throws(E_NO_CONTEXT)}
    ELSE {Returns(TRUE, "ok"), Returns(FALSE, E_BRANCH), Throws(E_BRANCH)}

\* A handler without its try/catch.
HandlerResult_NoCatch(h, o) ==
    IF o.threw
    THEN [handler |-> h, kind |-> "threw", shape |-> "", message |-> o.message,
          caught |-> FALSE]
    ELSE [handler |-> h, kind |-> "returned",
          shape |-> IF o.success THEN "value" ELSE "failure", message |-> o.message,
          caught |-> FALSE]

\* branch-handler.ts lines 14-76: the value of the call is handed on; what it
\* throws becomes {error: message} in the listing handlers and
\* {success: false, message} in the others.
HandlerResult(h, o) ==
    IF o.threw
    THEN [handler |-> h, kind |-> "returned",
          shape |-> IF h \in ListHandlers THEN "error" ELSE "failure", message |-> o.message,
          caught |-> TRUE]
    ELSE [handler |-> h, kind |-> "returned",
          shape |-> IF o.success THEN "value" ELSE "failure", message |-> o.message,
          caught |-> FALSE]

\* A handler is called. A checkout that succeeds attaches HEAD to the branch,
\* a push that succeeds leaves no local commit unpushed.
BranchHandler(h) ==
    /\ Quiet
    /\ \E o \in BranchCall(h) :
        /\ hresult' = HandlerResult(h, o)
        /\ current' = IF h = "checkout-branch" /\ ~o.threw /\ o.success THEN "main" ELSE current
        /\ ahead' = IF h = "push-branch" /\ ~o.threw /\ o.success THEN 0 ELSE ahead
    /\ UNCHANGED <<shimVars, mgrVars, factVars, convVars, behind, worktree, unmerged, rebasing, stash,
                   pullVars, commitVars, stashVars>>

\* ------------------------------------ convertWorktreeToBranchForContext
NoConvArg == [worktreePath |-> "", patch |-> FALSE, untracked |-> FALSE, remoteBase |-> "none"]

NoConvLocal ==
    [branchName |-> "", baseBranch |-> "", stashed |-> FALSE, created |-> FALSE,
     applyError |-> ""]

NoConvResult == [kind |-> "none", success |-> FALSE, message |-> "", branchName |-> ""]

ConvReturned(success, message, branchName) ==
    [kind |-> "returned", success |-> success, message |-> message, branchName |-> branchName]

\* path.basename: what follows the last separator.
RECURSIVE basename(_)
basename(p) ==
    IF ~Includes(p, "/") THEN p
    ELSE basename(SubSeq(p, 2, Len(p)))

BranchChars == UPPER \o LOWER \o "0123456789_-"

IsBranchChar(c) == \E i \in 1..Len(BranchChars) : SubSeq(BranchChars, i, i) = c

\* Line 981: .replace(/[^a-zA-Z0-9_-]/g, '-')
RECURSIVE ReplaceSpecial(_)
ReplaceSpecial(s) ==
    IF s = "" THEN ""
    ELSE (IF IsBranchChar(SubSeq(s, 1, 1)) THEN SubSeq(s, 1, 1) ELSE "-")
            \o ReplaceSpecial(SubSeq(s, 2, Len(s)))

\* Line 982: .replace(/--+/g, '-')
RECURSIVE CollapseDashes(_)
CollapseDashes(s) ==
    IF Len(s) < 2 THEN s
    ELSE IF SubSeq(s, 1, 2) = "--" THEN CollapseDashes(SubSeq(s, 2, Len(s)))
    ELSE SubSeq(s, 1, 1) \o CollapseDashes(SubSeq(s, 2, Len(s)))

\* Line 983: .replace(/^-|-$/g, '')
StripDashes(s) ==
    LET a == IF s /= "" /\ SubSeq(s, 1, 1) = "-" THEN SubSeq(s, 2, Len(s)) ELSE s
    IN  IF a /= "" /\ SubSeq(a, Len(a), Len(a)) = "-" THEN SubSeq(a, 1, Len(a) - 1) ELSE a

\* Lines 977-983: the branch name derived from the worktree's folder.
BranchNameOf(worktreePath) == StripDashes(CollapseDashes(ReplaceSpecial(basename(worktreePath))))

\* The worktrees a caller converts: a folder name with a space, the name of an
\* existing branch, and a name made of special characters only.
WorktreePaths == {"/wt/feature x", "/wt/main", "/wt/@@"}

\* branches.all of line 990.
LocalBranchNames == {"main"} \cup newBranches

\* Lines 996-1011: the base branch, NULL when there is neither master nor main.
BaseBranchOf(remoteBase, locals) ==
    IF remoteBase = "master" THEN "master"
    ELSE IF remoteBase = "main" THEN "main"
    ELSE IF "main" \in locals THEN "main"
    ELSE IF "master" \in locals THEN "master"
    ELSE NULL

\* What git diff HEAD and git ls-files --others report in the worktree.
PatchEdits == {[file |-> "a.txt", kind |-> "modified"]}
UntrackedEdits == {[file |-> "new.txt", kind |-> "not_added"]}

MSG_NO_NAME == "Could not derive a valid branch name from the folder"
MSG_EXISTS(branchName) == "Branch '" \o branchName \o "' already exists"
MSG_NO_BASE == "Could not find master or main branch"
MSG_CLEAN == "No changes to convert - worktree is clean"
MSG_APPLY(err) == "Failed to apply changes: " \o err
MSG_CREATED(branchName) == "Created branch '" \o branchName \o "' with changes from worktree"
E_APPLY == "error: patch failed: a.txt:1"
E_ENOENT == "ENOENT: no such file or directory, copyfile"
E_IDENTITY == "fatal: unable to auto-detect email address"

ConvFinish(r) ==
    /\ cvpc' = "done"
    /\ cvresult' = r

\* Lines 975-990: the call derives the branch name; without one it returns,
\* otherwise it awaits branchLocal().
ConvCall ==
    /\ cvpc = "idle"
    /\ requireContext = REPO
    /\ ~rebasing /\ ~unmerged
    /\ Len(stash) < MaxStash
    /\ \E w \in WorktreePaths, p \in BOOLEAN, u \in BOOLEAN, rb \in {"master", "main", "none"} :
        /\ cvarg' = [worktreePath |-> w, patch |-> p, untracked |-> u, remoteBase |-> rb]
        /\ cvlocal' = [NoConvLocal EXCEPT !.branchName = BranchNameOf(w)]
        /\ IF BranchNameOf(w) = ""
           THEN ConvFinish(ConvReturned(FALSE, MSG_NO_NAME, ""))
           ELSE cvpc' = "branchLocal" /\ cvresult' = cvresult
    /\ cvStart' = Snapshot
    /\ UNCHANGED <<shimVars, mgrVars, hresult, factVars, repoVars, pullVars, commitVars,
                   stashVars, newBranches>>

\* Lines 990-1025: the branch exists, there is no base branch, or the worktree
\* is clean: the call returns before it changes anything.
ConvRejects ==
    /\ cvpc = "branchLocal"
    /\ LET base == BaseBranchOf(cvarg.remoteBase, LocalBranchNames)
       IN  \/ /\ cvlocal.branchName \in LocalBranchNames
              /\ ConvFinish(ConvReturned(FALSE, MSG_EXISTS(cvlocal.branchName), ""))
           \/ /\ cvlocal.branchName \notin LocalBranchNames
              /\ base = NULL
              /\ ConvFinish(ConvReturned(FALSE, MSG_NO_BASE, ""))
           \/ /\ cvlocal.branchName \notin LocalBranchNames
              /\ base /= NULL
              /\ ~cvarg.patch /\ ~cvarg.untracked
              /\ ConvFinish(ConvReturned(FALSE, MSG_CLEAN, ""))
    /\ UNCHANGED <<shimVars, mgrVars, hresult, factVars, repoVars, pullVars, commitVars,
                   stashVars, cvarg, cvlocal, cvStart, newBranches>>

\* Lines 990-1028: the worktree has changes; the changes of the main
\* repository are stashed (stashChangesForContext: a stash push when the
\* working tree is dirty, stashed: false otherwise).
ConvStash ==
    /\ cvpc = "branchLocal"
    /\ cvlocal.branchName \notin LocalBranchNames
    /\ BaseBranchOf(cvarg.remoteBase, LocalBranchNames) /= NULL
    /\ cvarg.patch \/ cvarg.untracked
    /\ cvlocal' = [cvlocal EXCEPT
                     !.baseBranch = BaseBranchOf(cvarg.remoteBase, LocalBranchNames),
                     !.stashed = (worktree /= {})]
    /\ IF worktree /= {}
       THEN StashPushed(USER_STASH_MESSAGE)
       ELSE UNCHANGED <<worktree, stash>>
    /\ cvpc' = "checkoutNew"
    /\ UNCHANGED <<shimVars, mgrVars, hresult, factVars, current, behind, ahead, unmerged,
                   rebasing, pullVars, commitVars, stashVars, cvarg, cvresult, cvStart,
                   newBranches>>

\* Line 1032: checkout -b creates the branch and HEAD is attached to it.
ConvCheckoutNew ==
    /\ cvpc = "checkoutNew"
    /\ current' = cvlocal.branchName
    /\ newBranches' = newBranches \cup {cvlocal.branchName}
    /\ cvlocal' = [cvlocal EXCEPT !.created = TRUE]
    /\ cvpc' = IF cvarg.patch THEN "apply" ELSE "copy"
    /\ UNCHANGED <<shimVars, mgrVars, hresult, factVars, behind, ahead, worktree, unmerged,
                   rebasing, stash, pullVars, commitVars, stashVars, cvarg, cvresult, cvStart>>

\* Lines 1039-1040: git apply --3way applies the patch.
ConvApply ==
    /\ cvpc = "apply"
    /\ worktree' = worktree \cup PatchEdits
    /\ cvpc' = "copy"
    /\ UNCHANGED <<shimVars, mgrVars, hresult, factVars, current, behind, ahead, unmerged,
                   rebasing, stash, pullVars, commitVars, stashVars, cvarg, cvlocal, cvresult,
                   cvStart, newBranches>>

\* Lines 1041-1044: git apply --3way fails; git apply --reject is tried.
ConvApplyFails ==
    /\ cvpc = "apply"
    /\ cvlocal' = [cvlocal EXCEPT !.applyError = E_APPLY]
    /\ cvpc' = "applyReject"
    /\ UNCHANGED <<shimVars, mgrVars, hresult, factVars, repoVars, pullVars, commitVars,
                   stashVars, cvarg, cvresult, cvStart, newBranches>>

\* Line 1044: git apply --reject applies what it can.
ConvApplyReject ==
    /\ cvpc = "applyReject"
    /\ worktree' = worktree \cup PatchEdits
    /\ cvpc' = "copy"
    /\ UNCHANGED <<shimVars, mgrVars, hresult, factVars, current, behind, ahead, unmerged,
                   rebasing, stash, pullVars, commitVars, stashVars, cvarg, cvlocal, cvresult,
                   cvStart, newBranches>>

\* Lines 1045-1052: git apply --reject fails as well; the clean-up checks out
\* the previous branch ('-') when a stash was made, the base branch otherwise.
ConvRevertCheckout ==
    /\ cvpc = "applyReject"
    /\ current' = IF cvlocal.stashed THEN cvStart.current ELSE cvlocal.baseBranch
    /\ cvpc' = "deleteBranch"
    /\ UNCHANGED <<shimVars, mgrVars, hresult, factVars, behind, ahead, worktree, unmerged,
                   rebasing, stash, pullVars, commitVars, stashVars, cvarg, cvlocal, cvresult,
                   cvStart, newBranches>>

\* Lines 1053-1057: branch -D; without a stash the call returns.
ConvDeleteBranch ==
    /\ cvpc = "deleteBranch"
    /\ newBranches' = newBranches \ {cvlocal.branchName}
    /\ IF cvlocal.stashed
       THEN cvpc' = "popBack" /\ cvresult' = cvresult
       ELSE ConvFinish(ConvReturned(FALSE, MSG_APPLY(cvlocal.applyError), ""))
    /\ UNCHANGED <<shimVars, mgrVars, hresult, factVars, repoVars, pullVars, commitVars,
                   stashVars, cvarg, cvlocal, cvStart>>

\* Lines 1054-1057: the stash is popped and the call returns.
ConvPopBack ==
    /\ cvpc = "popBack"
    /\ StashPopped
    /\ ConvFinish(ConvReturned(FALSE, MSG_APPLY(cvlocal.applyError), ""))
    /\ UNCHANGED <<shimVars, mgrVars, hresult, factVars, current, behind, ahead, unmerged,
                   rebasing, pullVars, commitVars, stashVars, cvarg, cvlocal, cvStart,
                   newBranches>>

\* Lines 1069-1083: the untracked files are copied into the repository.
ConvCopy ==
    /\ cvpc = "copy"
    /\ worktree' = IF cvarg.untracked THEN worktree \cup UntrackedEdits ELSE worktree
    /\ cvpc' = "add"
    /\ UNCHANGED <<shimVars, mgrVars, hresult, factVars, current, behind, ahead, unmerged,
                   rebasing, stash, pullVars, commitVars, stashVars, cvarg, cvlocal, cvresult,
                   cvStart, newBranches>>

\* Line 1083: git add -A stages every change.
ConvAdd ==
    /\ cvpc = "add"
    /\ worktree' = {[file |-> e.file, kind |-> "staged"] : e \in worktree}
    /\ cvpc' = "commit"
    /\ UNCHANGED <<shimVars, mgrVars, hresult, factVars, current, behind, ahead, unmerged,
                   rebasing, stash, pullVars, commitVars, stashVars, cvarg, cvlocal, cvresult,
                   cvStart, newBranches>>

\* Lines 1086-1093: the commit records the staged changes.
ConvCommit ==
    /\ cvpc = "commit"
    /\ worktree' = {}
    /\ ConvFinish(ConvReturned(TRUE, MSG_CREATED(cvlocal.branchName), cvlocal.branchName))
    /\ UNCHANGED <<shimVars, mgrVars, hresult, factVars, current, behind, ahead, unmerged,
                   rebasing, stash, pullVars, commitVars, stashVars, cvarg, cvlocal, cvStart,
                   newBranches>>

\* Lines 1094-1096: checkout -b, a copy, git add or the commit throws; the
\* outer catch block returns the message and does nothing else.
ConvCatch ==
    /\ cvpc \in {"checkoutNew", "copy", "add", "commit"}
    /\ cvpc = "copy" => cvarg.untracked
    /\ ConvFinish(ConvReturned(FALSE,
            CASE cvpc = "copy" -> E_ENOENT
              [] cvpc = "commit" -> E_IDENTITY
              [] OTHER -> E_LOCK, ""))
    /\ UNCHANGED <<shimVars, mgrVars, hresult, factVars, repoVars, pullVars, commitVars,
                   stashVars, cvarg, cvlocal, cvStart, newBranches>>

\* The caller has taken the result.
ConvReturn ==
    /\ cvpc = "done"
    /\ cvpc' = "idle"
    /\ cvarg' = NoConvArg
    /\ cvlocal' = NoConvLocal
    /\ cvresult' = NoConvResult
    /\ cvStart' = NoSnapshot
    /\ UNCHANGED <<shimVars, mgrVars, hresult, factVars, repoVars, pullVars, commitVars,
                   stashVars, newBranches>>

\* ------------------------------------------------------------- the user
\* The user edits a file, stages one, adds or deletes one.
UserEdit ==
    /\ Quiet /\ git = REPO
    /\ FreeFiles /= {}
    /\ LET file == IF "a.txt" \in FreeFiles THEN "a.txt" ELSE "b.txt"
       IN  \E k \in KindsOf(file) : worktree' = worktree \cup {[file |-> file, kind |-> k]}
    /\ UNCHANGED <<shimVars, mgrVars, hresult, factVars, convVars, current, behind, ahead, unmerged, rebasing, stash,
                   pullVars, commitVars, stashVars>>

\* The user shelves the edits (stashChanges, or git stash in a terminal).
UserStash ==
    /\ Quiet /\ git = REPO
    /\ worktree /= {} /\ ~unmerged
    /\ Len(stash) < MaxStash
    /\ StashPushed(USER_STASH_MESSAGE)
    /\ UNCHANGED <<shimVars, mgrVars, hresult, factVars, convVars, current, behind, ahead, unmerged, rebasing,
                   pullVars, commitVars, stashVars>>

\* The user resolves the conflicts left in the working tree.
UserResolve ==
    /\ Quiet /\ git = REPO
    /\ unmerged /\ ~rebasing
    /\ unmerged' = FALSE
    /\ UNCHANGED <<shimVars, mgrVars, hresult, factVars, convVars, current, behind, ahead, worktree, rebasing, stash,
                   pullVars, commitVars, stashVars>>

\* The user aborts a rebase that was left in progress.
UserAbortRebase ==
    /\ Quiet /\ git = REPO
    /\ rebasing
    /\ RebaseAborted
    /\ UNCHANGED <<shimVars, mgrVars, hresult, factVars, convVars, current, behind, ahead, stash,
                   pullVars, commitVars, stashVars>>

\* The user pushes the local commits (pushBranch).
UserPush ==
    /\ Quiet /\ git = REPO
    /\ ahead > 0 /\ ~rebasing
    /\ ahead' = 0
    /\ UNCHANGED <<shimVars, mgrVars, hresult, factVars, convVars, current, behind, worktree, unmerged, rebasing, stash,
                   pullVars, commitVars, stashVars>>

\* The user checks out a commit (detached HEAD) or the branch again.
UserCheckout ==
    /\ Quiet /\ git = REPO
    /\ ~rebasing /\ ~unmerged
    /\ current' = IF current = "" THEN "main" ELSE ""
    /\ UNCHANGED <<shimVars, mgrVars, hresult, factVars, convVars, behind, ahead, worktree, unmerged, rebasing, stash,
                   pullVars, commitVars, stashVars>>

User ==
    \/ UserEdit \/ UserStash \/ UserResolve \/ UserAbortRebase \/ UserPush \/ UserCheckout

\* ------------------------------------------------------- the specifications
Init ==
    /\ git = NULL /\ repoPath = NULL
    /\ contexts = {} /\ activeId = 0 /\ nextId = 1
    /\ synced = NULL /\ mcall = NoCall
    /\ hresult = NoHandlerResult
    /\ fpc = "idle" /\ farg = NoArg /\ fmeta = NoMeta /\ fcmds = <<>> /\ fout = NoContext
    /\ current = "main"
    /\ behind = 0 /\ ahead = 0
    /\ worktree = {} /\ unmerged = FALSE /\ rebasing = FALSE
    /\ stash = <<>>
    /\ pc = "idle" /\ didStash = FALSE /\ currentBranch = ""
    /\ statusBefore = NoStatus /\ errorMessage = "" /\ result = NoResult
    /\ cmds = <<>> /\ ats = <<>> /\ pushed = NoEntry /\ failed = {} /\ atStart = NoSnapshot
    /\ cpc = "idle" /\ forceArg = "omitted" /\ cresult = NoCommitResult /\ catStart = NoSnapshot
    /\ spc = "idle" /\ sop = "pop" /\ stashIndex = 0
    /\ cvpc = "idle" /\ cvarg = NoConvArg /\ cvlocal = NoConvLocal
    /\ cvresult = NoConvResult /\ cvStart = NoSnapshot /\ newBranches = {}

\* The caller issues one operation at a time (spec section 5: "the design
\* relies on the caller issuing one Git-mutating operation at a time").
Next ==
    \/ SelectRepo
    \/ User
    \/ (Quiet /\ PullThrowsNoRepo)
    \/ (Quiet /\ PullCall)
    \/ PullStep
    \/ PullReturn
    \/ (Quiet /\ CommitThrowsNoRepo)
    \/ (Quiet /\ CommitCall)
    \/ CommitStep
    \/ CommitReturn
    \/ (Quiet /\ StashOpCall)
    \/ StashOpStep

Spec == Init /\ [][Next]_vars

\* The number of operations between their call and their return.
InFlight ==
    (IF pc = "idle" THEN 0 ELSE 1) + (IF cpc = "idle" THEN 0 ELSE 1)
        + (IF spc = "idle" THEN 0 ELSE 1)

\* Nothing in the service serialises its operations: each is an async function
\* that any IPC handler may call while another is suspended at an await. The
\* user edits files between the calls.
NextConc ==
    \/ SelectRepo
    \/ UserEdit
    \/ (InFlight < MaxInFlight /\ PullThrowsNoRepo)
    \/ (InFlight < MaxInFlight /\ PullCall)
    \/ PullStep
    \/ PullStashPushNothing
    \/ PullReturn
    \/ (InFlight < MaxInFlight /\ CommitThrowsNoRepo)
    \/ (InFlight < MaxInFlight /\ CommitCall)
    \/ CommitStep
    \/ CommitReturn
    \/ (InFlight < MaxInFlight /\ StashOpCall)
    \/ StashOpStep

SpecConc == Init /\ [][NextConc]_vars

\* The repository handlers, the manager and the legacy functions called in any
\* order, with no git operation in progress.
NextMgr ==
    \/ \E dir \in Paths : SelectRepoPath(dir)
    \/ \E dir \in Paths : LoadSavedRepo(dir)
    \/ \E dir \in Paths : ManagerOpen(dir)
    \/ \E id \in 1..MaxContexts : ManagerClose(id)
    \/ \E dir \in Paths : SetRepoPath(dir)
    \/ ClearLegacyState

MgrSpec == Init /\ [][NextMgr]_vars

\* The IPC surface: the user selects directories and the renderer calls the
\* branch handlers, before and after a selection.
NextIpc ==
    \/ \E dir \in Paths : SelectRepoPath(dir)
    \/ ClearLegacyState
    \/ \E h \in BranchHandlers : BranchHandler(h)

IpcSpec == Init /\ [][NextIpc]_vars

\* The context factory and detectProvider, called with any directory on any
\* repository.
NextCtx ==
    \/ (FactoryCall /\ NotFactory)
    \/ (FactoryNotRepo /\ NotFactory)
    \/ (FactoryIsRepo /\ NotFactory)
    \/ (FactoryRevparse /\ NotFactory)
    \/ (FactoryGetRemotes /\ NotFactory)
    \/ (FactoryRemoteHead /\ NotFactory)
    \/ (FactoryNoRemoteHead /\ NotFactory)
    \/ (FactoryBranchLocal /\ NotFactory)
    \/ (FactoryReturn /\ NotFactory)
    \/ (DetectProvider /\ NotFactory)

CtxSpec == Init /\ [][NextCtx]_vars

\* The directories of the one repository whose state the model holds, and a
\* directory that is no repository.
SelDirs == {REPO, "/repo/src", PLAIN}

\* The git operations between selections of any of these directories. A
\* command run in a directory that is no repository fails.
NextSel ==
    \/ \E dir \in SelDirs : SelectRepoPath(dir)
    \/ User
    \/ (Quiet /\ PullThrowsNoRepo)
    \/ (Quiet /\ PullCall)
    \/ (git = REPO /\ PullStep)
    \/ (git /= REPO /\ PullBranchLocalFails)
    \/ PullReturn
    \/ (Quiet /\ CommitThrowsNoRepo)
    \/ (Quiet /\ CommitCall)
    \/ CommitStep
    \/ CommitReturn
    \/ (Quiet /\ StashOpCall)
    \/ StashOpStep

SelSpec == Init /\ [][NextSel]_vars

\* The operations that resolve their repository through requireContext, the
\* branch handlers and commitChanges, between selections of a directory and
\* clearLegacyState.
NextReq ==
    \/ \E dir \in SelDirs : SelectRepoPath(dir)
    \/ ClearLegacyState
    \/ UserEdit
    \/ \E h \in BranchHandlers : BranchHandler(h)
    \/ (Quiet /\ CommitThrowsNoRepo)
    \/ (Quiet /\ CommitCall)
    \/ CommitStep
    \/ CommitReturn

ReqSpec == Init /\ [][NextReq]_vars

\* The directories the legacy functions are called with: the directories of
\* Paths and a saved directory that exists no more.
ShimDirs == Paths \cup {MISSING}

\* The writers of the legacy globals in any order: the legacy-sync callback
\* (invoked by the manager's open and close), setRepoPath called directly and
\* from the fallback of load-saved-repo, and clearLegacyState.
NextShim ==
    \/ \E dir \in Paths : ManagerOpen(dir)
    \/ \E id \in 1..MaxContexts : ManagerClose(id)
    \/ \E dir \in ShimDirs : SetRepoPath(dir)
    \/ \E dir \in ShimDirs : LoadSavedRepo(dir)
    \/ ClearLegacyState

ShimSpec == Init /\ [][NextShim]_vars

\* The current repository changes while pullCurrentBranch is suspended at an
\* await: setRepoPath with the repository or with a directory that is no
\* repository, and clearLegacyState, are called at any moment. A command
\* issued to the repository takes its effect there; one issued elsewhere fails.
SwitchDirs == {REPO, PLAIN}

NextSwitch ==
    \/ SelectRepo
    \/ \E dir \in SwitchDirs : SetRepoPath(dir)
    \/ ClearLegacyState
    \/ User
    \/ (Quiet /\ PullThrowsNoRepo)
    \/ (Quiet /\ PullCall)
    \/ (pc \notin {"idle", "done"} /\ RunsIn = REPO /\ PullStep)
    \/ (pc \notin {"idle", "done"} /\ RunsIn /= REPO /\ PullStepElsewhere)
    \/ PullReturn
    \/ (Quiet /\ CommitThrowsNoRepo)
    \/ (Quiet /\ CommitCall)
    \/ CommitStep
    \/ CommitReturn

SwitchSpec == Init /\ [][NextSwitch]_vars

\* Worktrees are converted one after the other; between two conversions the
\* user edits files and checks out main or detaches HEAD.
NextConv ==
    \/ SelectRepo
    \/ (cvpc = "idle" /\ UserEdit)
    \/ (cvpc = "idle" /\ UserCheckout)
    \/ ConvCall
    \/ ConvRejects
    \/ ConvStash
    \/ ConvCheckoutNew
    \/ ConvApply
    \/ ConvApplyFails
    \/ ConvApplyReject
    \/ ConvRevertCheckout
    \/ ConvDeleteBranch
    \/ ConvPopBack
    \/ ConvCopy
    \/ ConvAdd
    \/ ConvCommit
    \/ ConvCatch
    \/ ConvReturn

ConvSpec == Init /\ [][NextConv]_vars

\* FairSpec: every git command the running pullCurrentBranch awaits eventually
\* completes or errors.
FairSpec == Spec /\ WF_vars(PullStep)

\* ---------------------------------------------------------------- the claims
Failed(cmd) == \E f \in failed : f.cmd = cmd

\* The command was issued and was not rejected (read once the call is done).
Succeeded(cmd) == Issued(cmd) /\ ~Failed(cmd)

\* Every file edited when the call started has its edit in the working tree or
\* in an entry of the stash list.
EditsKept ==
    EditedFiles(atStart.worktree) \subseteq (EditedFiles(worktree) \cup EditedFiles(StashedEdits))

EditsInWorktree == EditedFiles(atStart.worktree) \subseteq EditedFiles(worktree)

AutoStashEntry == [message |-> AUTO_STASH_MESSAGE, changes |-> atStart.worktree]

\* C1 (as stated): when pullCurrentBranch returns, the uncommitted edits that
\* were in the working tree when it started are in the working tree or in the
\* stash list. Violated on the path pull-fails, pop, rebase --abort.
C1_EditsNeverDiscarded == (pc = "done") => EditsKept

DirtyBehindAllSucceed ==
    /\ pc = "done"
    /\ hasUncommittedChanges(statusBefore) /\ statusBefore.behind > 0
    /\ Succeeded("stash push") /\ Succeeded("pull") /\ Succeeded("stash pop")

\* C2 (as stated): dirty, behind, stash push, pull and pop all succeed: success
\* with autoStashed, the pulled commits are in the branch, the edits are in the
\* working tree, and the stash list is empty.
C2_StashListEmpty ==
    DirtyBehindAllSucceed =>
        /\ result.kind = "returned" /\ result.success /\ result.autoStashed
        /\ behind = 0
        /\ EditsInWorktree
        /\ stash = <<>>

\* C2 (amended): as C2, but the stash list is the list from before the call:
\* the auto-stash entry is gone, the entries the user had stay.
C2_StashListRestored ==
    DirtyBehindAllSucceed =>
        /\ result.kind = "returned" /\ result.success /\ result.autoStashed
        /\ result.message = PulledAndRestored(statusBefore.behind)
        /\ behind = 0
        /\ worktree = Unstaged(atStart.worktree)
        /\ stash = atStart.stash

C2_Witness == DirtyBehindAllSucceed /\ atStart.stash /= <<>> /\ result.autoStashed

PopConflicted == \E f \in failed : f.cmd = "stash pop" /\ PopHadConflicts(f.message)

\* C3 (as stated): the pull succeeds and the pop raises a conflict: success
\* with hadConflicts and autoStashed, the pulled commits are present, the edits
\* are in the working tree as unresolved conflicts and the auto-stash entry is
\* no longer in the stash list.
C3_PoppedOnConflict ==
    (pc = "done" /\ Succeeded("pull") /\ PopConflicted) =>
        /\ result.kind = "returned" /\ result.success
        /\ result.hadConflicts /\ result.autoStashed
        /\ behind = 0
        /\ EditsInWorktree /\ unmerged
        /\ stash = atStart.stash

\* C4: the behind count read after the fetch is 0: success, 'Already up to
\* date', no stash push, no pull, no stash pop, and working tree, index and
\* stash list are as they were.
C4_UpToDateIsNoOp ==
    (pc = "done" /\ Succeeded("status") /\ statusBefore.behind = 0) =>
        /\ result = Returned(TRUE, MSG_UP_TO_DATE, FALSE, FALSE)
        /\ ~Issued("stash push") /\ ~Issued("pull") /\ ~Issued("stash pop")
        /\ worktree = atStart.worktree
        /\ stash = atStart.stash

C4_Witness ==
    /\ pc = "done" /\ Succeeded("status") /\ statusBefore.behind = 0
    /\ hasUncommittedChanges(statusBefore)
    /\ result.message = MSG_UP_TO_DATE

\* C5: HEAD is detached: a failure result, no fetch, no stash push, no pull,
\* no stash pop, and the repository is as it was.
C5_DetachedFails ==
    (pc = "done" /\ git /= NULL /\ atStart.current = "") =>
        /\ result.kind = "returned" /\ ~result.success
        /\ ~Issued("fetch") /\ ~Issued("stash push") /\ ~Issued("pull") /\ ~Issued("stash pop")
        /\ Snapshot = atStart

C5_Witness ==
    /\ pc = "done" /\ atStart.current = ""
    /\ atStart.worktree /= {} /\ atStart.behind > 0
    /\ result = Returned(FALSE, MSG_DETACHED, FALSE, FALSE)

\* The result tells the caller that the changes are in the stash.
TellsChangesInStash == result.autoStashed \/ Includes(result.message, "stash")

\* C6 (as stated): an auto-stash was created and the pull failed: the pop was
\* attempted, and the auto-stash entry is not left in the stash list unless the
\* result tells the caller that the changes remain in the stash.
C6_StuckStashReported ==
    (pc = "done" /\ didStash /\ Failed("pull")) =>
        /\ Issued("stash pop")
        /\ (stash = <<AutoStashEntry>> \o atStart.stash) => TellsChangesInStash

\* C7: every invocation on a selected repository returns a result record: with
\* a stash push done, not before the stash pop was attempted, and never by
\* throwing.
C7_PullReturns ==
    (pc = "branchLocal") ~>
        (pc = "done" /\ result.kind = "returned" /\ (didStash => Issued("stash pop")))

C7_Witness ==
    /\ pc = "done" /\ result.kind = "returned"
    /\ didStash /\ Failed("pull") /\ Failed("stash pop") /\ Issued("rebase --abort")

\* C8: behind by N > 0 after the silent fetch and force false or omitted: no
\* commit (HEAD and index unchanged) and the behind result carrying N.
C8_BehindGate ==
    (cpc = "done" /\ cresult.kind = "returned" /\ behind > 0 /\ forceArg \in {"omitted", "false"}) =>
        /\ ~cresult.success
        /\ cresult.message = MSG_BEHIND
        /\ cresult.behindCount = behind
        /\ ahead = catStart.ahead
        /\ worktree = catStart.worktree

C8_Witness ==
    /\ cpc = "done" /\ forceArg = "omitted"
    /\ behind > catStart.behind /\ Staged(worktree) /= {}
    /\ cresult.behindCount = behind

\* C9: force true, or behind count 0: the commit is made from the staged
\* content whatever the behind count, and the result is success with the new
\* commit's identity or failure with git's message, never the behind result.
C9_CommitProceeds ==
    (cpc = "done" /\ cresult.kind = "returned" /\ (forceArg = "true" \/ behind = 0)) =>
        \/ /\ cresult.success
           /\ cresult.commit = ahead
           /\ ahead = catStart.ahead + 1
           /\ Staged(catStart.worktree) /= {}
           /\ worktree = catStart.worktree \ Staged(catStart.worktree)
        \/ /\ ~cresult.success
           /\ cresult.message \in {E_NOTHING, E_UNMERGED}
           /\ ahead = catStart.ahead
           /\ worktree = catStart.worktree

C9_Witness ==
    /\ cpc = "done" /\ forceArg = "true" /\ behind > 0
    /\ cresult.success /\ cresult.commit = catStart.ahead + 1

\* The stash-pull-unstash sequence has begun and has not reached its outcome.
InSequence ==
    /\ pc \in {"stashPush", "pull", "pop", "catchPop", "abort"}
    /\ Issued("stash push")

\* C10 (as stated): while a pullCurrentBranch is in its stash-pull-unstash
\* sequence no other mutating operation (stash pop or drop, commit) is in
\* progress on the repository.
C10_OneMutationAtATime ==
    ~(InSequence /\ (spc = "run" \/ cpc \in {"fetch", "commit"}))

\* C11 (as stated): pullCurrentBranch and commitChanges called with no active
\* context hand back a {success: false, message} result, issue no git command
\* and do not throw.
C11_NoRepoIsStructured ==
    /\ (pc = "done" /\ active = NULL) =>
            (result.kind = "returned" /\ ~result.success /\ cmds = <<>>)
    /\ (cpc = "done" /\ active = NULL) =>
            (cresult.kind = "returned" /\ ~cresult.success)

\* C12 (as stated): the legacy repoPath is the path of the manager's active
\* context, and null exactly when no context is active.
C12_LegacyMirrorsActive == repoPath = active /\ git = active

\* The canonical path of a directory passed to open().
Canonical(dir) == Root(Normalize(dir))

OnePerPath == \A c1, c2 \in contexts : c1.path = c2.path => c1 = c2

\* C13: the registry holds at most one context per canonical path, and open()
\* of a path that is open hands back the open context (same id), makes it
\* active and adds no entry.
C13_OpenIsIdempotent ==
    /\ []OnePerPath
    /\ [][\A c \in contexts :
            (mcall'.op = "open" /\ ~mcall'.threw /\ c.path = Canonical(mcall'.arg)) =>
                (contexts' = contexts /\ mcall'.id = c.id /\ activeId' = c.id)]_vars

C13_Witness ==
    /\ mcall.op = "open" /\ ~mcall.threw
    /\ Cardinality(contexts) = 2 /\ nextId = 3
    /\ mcall.id = 1 /\ activeId = 1

\* C14: every context's path is the root of the repository the directory it
\* was created from is in, its git handle is bound to that root, and the
\* directories of one repository share one context: open() of any of them
\* hands back that context.
C14_RootContext ==
    /\ \A c \in contexts : IsRepo(c.via) /\ c.path = Root(c.via) /\ c.git = c.path
    /\ \A c1, c2 \in contexts : Root(c1.via) = Root(c2.via) => c1 = c2
    /\ (mcall.op = "open" /\ ~mcall.threw) =>
            \E c \in contexts : c.id = mcall.id /\ c.id = activeId /\ c.path = Root(mcall.arg)

C14_Witness ==
    /\ mcall.op = "open" /\ mcall.arg = "/repo/docs"
    /\ Cardinality(contexts) = 1
    /\ \E c \in contexts : c.via = "/repo/src" /\ c.id = mcall.id /\ c.path = REPO

\* C16: closing the active context removes it from the registry and sets the
\* active pointer to null, whatever other contexts are open.
C16_CloseActiveClears ==
    [][(mcall'.op = "close" /\ activeId /= 0 /\ mcall'.id = activeId) =>
            (activeId' = 0 /\ activeId \notin Ids(contexts'))]_vars

C16_Witness ==
    /\ mcall.op = "close" /\ activeId = 0
    /\ Cardinality(contexts) = 2 /\ synced = NULL /\ nextId = 4

\* C17: the active pointer is null or the id of a context in the registry, and
\* no two contexts share an id.
C17_ActiveIsRegistered ==
    /\ activeId = 0 \/ activeId \in Ids(contexts)
    /\ \A c1, c2 \in contexts : c1.id = c2.id => c1 = c2

C17_Witness ==
    /\ mcall.op = "close" /\ activeId /= 0
    /\ nextId = 3 /\ Cardinality(contexts) = 1

\* C18: open() of a directory that is no git repository throws, and registry,
\* active pointer and callback are left alone.
C18_FailedOpenChangesNothing ==
    [][(mcall'.op = "open" /\ ~IsRepo(Normalize(mcall'.arg))) =>
            /\ mcall'.threw
            /\ contexts' = contexts /\ activeId' = activeId /\ nextId' = nextId
            /\ synced' = synced]_vars

C18_Witness ==
    /\ mcall.op = "open" /\ mcall.arg = PLAIN /\ mcall.threw
    /\ activeId /= 0 /\ synced = active /\ repoPath = PLAIN

\* C19: every change of the active context invokes the callback, with the new
\* active path or with null; closing a context that is not the active one
\* leaves the active pointer and invokes nothing.
C19_SyncOnEveryChange ==
    [][/\ (activeId' /= activeId) => (synced' = active')
       /\ (mcall'.op = "close" /\ mcall'.id \in Ids(contexts) /\ mcall'.id /= activeId) =>
            (activeId' = activeId /\ synced' = synced)]_vars

C19_Witness ==
    /\ mcall.op = "close" /\ mcall.id /= activeId
    /\ activeId /= 0 /\ synced = active

\* C20: a branch handler hands back a record for every outcome: what the
\* git-service call throws, 'No repository selected' included, comes back as
\* {error: message} from the listing handlers and as {success: false, message}
\* from the others.
C20_HandlersNeverThrow ==
    /\ hresult.kind \in {"none", "returned"}
    /\ hresult.caught =>
            /\ hresult.shape = IF hresult.handler \in ListHandlers THEN "error" ELSE "failure"
            /\ hresult.message \in {E_NO_REPOSITORY, E_NO_CONTEXT, E_BRANCH}

C20_Witness ==
    /\ hresult.handler = "pull-branch" /\ hresult.message = E_NO_REPOSITORY
    /\ hresult.caught /\ hresult.shape = "failure" /\ contexts /= {}

ProviderOf(url) ==
    IF url = NULL \/ url = "" THEN "local"
    ELSE IF Includes(toLowerCase(url), "github.com") THEN "github"
    ELSE IF Includes(toLowerCase(url), "gitlab") THEN "gitlab"
    ELSE IF Includes(toLowerCase(url), "bitbucket") THEN "bitbucket"
    ELSE IF Includes(toLowerCase(url), "azure.com") THEN "azure"
    ELSE IF Includes(toLowerCase(url), "visualstudio.com") THEN "azure"
    ELSE "local"

\* C22: detectProvider answers for every URL, the empty string and null:
\* 'local' for null, empty or no match, otherwise the first match of
\* github.com, gitlab, bitbucket, azure.com / visualstudio.com, whatever the
\* letter case; the two URLs of the documentation give github and gitlab.
C22_ProviderDetected ==
    (fout.kind \in {"provider", "returned"}) =>
        /\ fout.provider \in {"github", "gitlab", "bitbucket", "azure", "local"}
        /\ fout.provider = ProviderOf(fout.remoteUrl)
        /\ (fout.remoteUrl = "https://github.com/x/y.git") => fout.provider = "github"
        /\ (fout.remoteUrl = "git@gitlab.com:x/y.git") => fout.provider = "gitlab"
        /\ (fout.remoteUrl = NULL) => fout.provider = "local"

C22_Witness ==
    /\ fout.kind = "provider" /\ fout.remoteUrl = "HTTPS://GitHub.COM/X/Y.git"
    /\ fout.provider = "github"

\* The branch the claim names: origin's advertised HEAD branch when origin can
\* be shown and advertises one, else local main, master, the first local
\* branch, 'main'.
DefaultBranchOf(arg) ==
    IF arg.origin.kind = "head" THEN arg.origin.head
    ELSE IF arg.branches.threw THEN "main"
    ELSE IF \E i \in 1..Len(arg.branches.all) : arg.branches.all[i] = "main" THEN "main"
    ELSE IF \E i \in 1..Len(arg.branches.all) : arg.branches.all[i] = "master" THEN "master"
    ELSE IF arg.branches.all /= <<>> THEN Head(arg.branches.all)
    ELSE "main"

\* C29 (as stated): getDefaultBranch does not throw and hands back origin's
\* advertised HEAD branch, else local main, else master, else the first local
\* branch, else 'main'. Violated when origin is shown and advertises no HEAD.
C29_DefaultBranchOrder ==
    (fout.kind = "returned") => fout.defaultBranch = DefaultBranchOf(farg)

\* One of the status lists modified, untracked, created, deleted, staged is
\* not empty.
DirtyLists(status) == \E k \in Kinds : status[k] /= {}

\* C23: a stash push is issued if and only if the status read shows the branch
\* behind and one of the five lists non-empty; the entry it makes carries the
\* marker message and every uncommitted edit, untracked files included; with a
\* clean working tree neither a stash push nor a stash pop is issued.
C23_StashIffDirtyAndBehind ==
    /\ Issued("stash push") <=> (statusBefore.behind > 0 /\ DirtyLists(statusBefore))
    /\ (pc = "pull" /\ didStash) =>
            /\ stash = <<[message |-> "ledger-auto-stash-for-pull", changes |-> atStart.worktree]>>
                            \o atStart.stash
            /\ worktree = {}
    /\ (pc /= "idle" /\ atStart.worktree = {}) => (~Issued("stash push") /\ ~Issued("stash pop"))

C23_Witness ==
    /\ pc = "pull" /\ didStash /\ Issued("stash push")
    /\ statusBefore.not_added /= {} /\ statusBefore.modified = {} /\ statusBefore.staged = {}
    /\ statusBefore.created = {} /\ statusBefore.deleted = {}
    /\ atStart.stash /= <<>>

CommandOrder ==
    <<"branchLocal", "fetch", "status", "stash push", "pull", "stash pop", "rebase --abort">>

Rank(cmd) == CHOOSE i \in 1..Len(CommandOrder) : CommandOrder[i] = cmd

\* C24: the commands of one invocation occur in the order fetch, status, stash
\* push, pull, stash pop, each at most once; a stash pop is issued only when
\* this invocation's stash push succeeded and the pull has finished, and a
\* failed pop is not followed by another.
C24_CommandOrder ==
    /\ \A i, j \in 1..Len(cmds) : (i < j) => (Rank(cmds[i]) < Rank(cmds[j]))
    /\ Issued("stash pop") =>
            /\ Issued("stash push") /\ ~Failed("stash push")
            /\ Issued("pull") /\ pc /= "pull"

C24_Witness ==
    /\ pc = "done" /\ Failed("stash pop") /\ ~Failed("pull")
    /\ cmds = <<"branchLocal", "fetch", "status", "stash push", "pull", "stash pop">>

\* The message names a conflict, in the words of the claim.
NamesConflict(msg) ==
    \E word \in {"conflict", "CONFLICT", "Merge conflict", "could not apply"} : Includes(msg, word)

NamesNoTracking(msg) == \E word \in {"no tracking", "doesn't track"} : Includes(msg, word)

Count(cmd) == Cardinality({i \in 1..Len(cmds) : cmds[i] = cmd})

\* C25: the pull failed with a conflict message: rebase --abort was attempted
\* exactly once, a failure of it is ignored, the result is success false with
\* hadConflicts, and when the abort succeeded no rebase is in progress.
C25_ConflictAbortsRebase ==
    (pc = "done" /\ \E f \in failed : f.cmd = "pull" /\ NamesConflict(f.message)) =>
        /\ Count("rebase --abort") = 1
        /\ result.kind = "returned" /\ ~result.success /\ result.hadConflicts
        /\ ~Failed("rebase --abort") => ~rebasing

C25_Witness ==
    /\ pc = "done" /\ [cmd |-> "pull", message |-> E_COULD_NOT_APPLY] \in failed
    /\ Failed("rebase --abort") /\ rebasing
    /\ result.hadConflicts /\ ~result.success

\* C26: a command failed with a message that names a missing tracking branch
\* and no conflict: success true with 'No remote tracking branch (will be
\* created on push)', without hadConflicts.
C26_NoTrackingIsSuccess ==
    (pc = "done" /\ \E f \in failed : NamesNoTracking(f.message) /\ ~NamesConflict(f.message)) =>
        /\ result.kind = "returned" /\ result.success /\ ~result.hadConflicts
        /\ result.message = "No remote tracking branch (will be created on push)"

C26_Witness ==
    /\ pc = "done" /\ [cmd |-> "pull", message |-> E_NO_TRACKING] \in failed
    /\ didStash /\ Failed("stash pop")
    /\ result.success /\ result.message = MSG_NO_TRACKING

\* The commands of the try block whose failure the catch block reports.
MainCommands == {"branchLocal", "fetch", "status", "stash push", "pull"}

\* C27: the outcome reported for a failed command depends on that command's
\* message alone: neither a conflict nor a missing tracking branch gives
\* success false with the message unchanged, whether or not the best-effort
\* stash pop or the rebase --abort failed after it.
C27_OriginalFailureReported ==
    \A f \in failed :
        (pc = "done" /\ f.cmd \in MainCommands) =>
            /\ result.kind = "returned"
            /\ (~NamesConflict(f.message) /\ ~NamesNoTracking(f.message)) =>
                    (~result.success /\ result.message = f.message /\ ~result.hadConflicts)
            /\ NamesConflict(f.message) => (~result.success /\ result.message = MSG_PULL_CONFLICT)
            /\ (NamesNoTracking(f.message) /\ ~NamesConflict(f.message)) =>
                    (result.success /\ result.message = MSG_NO_TRACKING)

C27_Witness ==
    /\ pc = "done" /\ [cmd |-> "pull", message |-> E_NETWORK] \in failed
    /\ Failed("stash pop")
    /\ ~result.success /\ result.message = E_NETWORK

\* C28: the pull succeeded and the stash pop failed with a message that names
\* no conflict: success true with autoStashed and without hadConflicts, the
\* message tells that the changes are in the stash, and the auto-stash entry
\* is in the stash list.
C28_PopFailureKeepsStash ==
    (/\ pc = "done" /\ Issued("pull") /\ ~Failed("pull")
     /\ \E f \in failed : f.cmd = "stash pop" /\ ~Includes(f.message, "conflict")
                            /\ ~Includes(f.message, "CONFLICT")) =>
        /\ result.kind = "returned" /\ result.success
        /\ result.autoStashed /\ ~result.hadConflicts
        /\ Includes(result.message, "Your changes are in the stash")
        /\ stash = <<[message |-> AUTO_STASH_MESSAGE, changes |-> atStart.worktree]>> \o atStart.stash

C28_Witness ==
    /\ pc = "done" /\ ~Failed("pull")
    /\ [cmd |-> "stash pop", message |-> E_UNTRACKED] \in failed
    /\ atStart.stash /= <<>> /\ Len(stash) = Len(atStart.stash) + 1
    /\ result.message = MSG_IN_STASH

\* C30 (as stated): every git command of pullCurrentBranch and of commitChanges
\* runs against the path of the manager's active context, so the two called
\* back to back act on one repository.
C30_OneTargetRepository ==
    (cmds /= <<>> \/ cpc \in {"fetch", "commit"}) => (git = active)

\* C33 (as stated): on every path on which pullCurrentBranch returns, the result
\* carries autoStashed exactly when this invocation created an auto-stash
\* (its stash push ran and was not rejected).
C33_AutoStashedIffStashed ==
    (pc = "done" /\ result.kind = "returned") =>
        (result.autoStashed <=> Succeeded("stash push"))

\* C34 (as stated): once select-repo or load-saved-repo has returned the path
\* P, get-repo-path returns P, whatever the manager held before and also when
\* manager.open threw and the handler fell back to setRepoPath.
C34_GetRepoPathFollowsSelection ==
    [][\A dir \in Paths :
        (SelectRepoPath(dir) \/ LoadSavedRepo(dir)) =>
            GetRepoPathHandler' = SelectedPath(dir)]_vars

\* C35: with no active context in the manager, every operation that resolves
\* its repository through requireContext fails with 'No repository selected',
\* also while the legacy handle and path are set: commitChanges throws it, and
\* the handlers of the branch wrappers (all but pull-branch, which reads the
\* legacy handle) catch it from the wrapper.
C35_NoContextNoFallback ==
    /\ [](cpc /= "idle" /\ active = NULL =>
            /\ cpc = "done" /\ cresult.kind = "threw"
            /\ Includes(cresult.message, "No repository selected"))
    /\ [][\A h \in BranchHandlers \ {"pull-branch"} :
            (BranchHandler(h) /\ active = NULL) =>
                /\ hresult'.caught
                /\ Includes(hresult'.message, "No repository selected")]_vars

C35_Witness ==
    /\ git = PLAIN /\ repoPath = PLAIN /\ active = NULL
    /\ cpc = "done" /\ cresult.message = E_NO_CONTEXT
    /\ hresult.handler = "checkout-branch" /\ hresult.caught
    /\ hresult.message = E_NO_CONTEXT

\* C37 (as stated): in every state of the legacy shim the handle git is null
\* exactly when repoPath is null, and a handle that is not null is bound to
\* repoPath.
C37_HandleMatchesPath ==
    /\ (git = NULL <=> repoPath = NULL)
    /\ (git /= NULL => git = repoPath)

\* C32 (as stated): the entry a stash pop of pullCurrentBranch takes off the
\* stash list is the entry the same invocation pushed, whatever popStash or
\* dropStash call ran between the push and the pop.
C32_PopsOwnStash ==
    [][(pc \in {"pop", "catchPop"} /\ pc' /= pc /\ Len(stash') < Len(stash)) =>
            stash[1] = pushed]_vars

\* C31 (as stated): the git commands one invocation of pullCurrentBranch
\* issues all go to the same repository, also when the current repository
\* changes while the invocation is suspended at an await.
C31_OneRepositoryPerInvocation ==
    \A i, j \in 1..Len(ats) :
        (ats[i] /= NULL /\ ats[j] /= NULL) => ats[i] = ats[j]

\* C36 (as stated): convertWorktreeToBranchForContext that fails after it has
\* stashed the repository's changes and created the new branch returns
\* success false with HEAD on the branch it was on before the call, the new
\* branch deleted, and the stashed changes back in the working tree.
C36_FailureRestoresRepository ==
    (cvpc = "done" /\ cvlocal.created /\ ~cvresult.success) =>
        /\ current = cvStart.current
        /\ cvlocal.branchName \notin newBranches
        /\ stash = cvStart.stash
        /\ EditedFiles(cvStart.worktree) \subseteq EditedFiles(worktree)

====
